---- MODULE Spec2Model ----
(***************************************************************************)
(* Model of the auto-assign serverless app (server/server.js): the         *)
(* scheduled run (fetch, weekend status reversion, round-robin assignment, *)
(* rotation-state persistence) and its audit stores.                       *)
(*                                                                         *)
(* Encodings.  Group ids are strings (the real ids exceed 32 bits); the    *)
(* empty string is a missing group_id.  responder_id 0 is a missing        *)
(* responder.  A rotation index of -1 is an absent key of the              *)
(* agentIndexByGroup object.  An agent's "available" is "true", "false" or *)
(* "undefined".  Time is counted in minutes from a Sunday 00:00 UTC.       *)
(***************************************************************************)
EXTENDS Integers, Sequences, FiniteSets, TLC

\* ---------------------------------------------------------------- bounds
\* Longest ticket page the remote system returns to one operation of Spec.
MaxTickets == 2

\* Longest page of assignable tickets in the one run of SpecRR.
MaxQueue == 3

\* Most entries in a store handed to a retention purge on its own.
MaxStored == 3

\* Most entries appended in a row to an audit store looked at on its own.
MaxAppends == 2

\* Number of consecutive scheduled runs in one behaviour of SpecRuns.
MaxRuns == 2

\* Weeks of wall-clock minutes the time policy is evaluated on.
MaxWeeks == 1

\* Largest maxRetries makeAPICallWithRetry is called with.
MaxAttempts == 3

\* Most agent pages the remote system is asked for in a behaviour of
\* SpecAgentPages: one more than the cap of the ticket fetcher.
MaxAgentPages == 51

\* ------------------------------------------------------ program constants
West == "67000578161"
Southeast == "67000578164"
Northeast == "67000578163"
Southwest == "67000578162"
Triage == "67000578235"
SupportOps == "67000570681"

\* A group id the app does not monitor.
OtherGroup == "67000999999"

supportedGroups == <<West, Southeast, Northeast, Southwest, Triage, SupportOps>>

GROUP_NAMES_BY_ID ==
  [g \in {supportedGroups[i] : i \in 1..Len(supportedGroups)} |->
     CASE g = West -> "West Region"
       [] g = Southeast -> "Central Southeast"
       [] g = Northeast -> "Northeast Region"
       [] g = Southwest -> "Central Southwest"
       [] g = Triage -> "Triage"
       [] g = SupportOps -> "Support Ops"]

ASSIGNMENT_ATTEMPTS_RETENTION_DAYS == 31
WEEKEND_REVERSIONS_RETENTION_DAYS == 90

\* STATUS_MAPPINGS['Follow-up Required']; 0 stands for a missing key.
STATUS_MAPPINGS(previousStatus) ==
  CASE previousStatus = "Waiting on Customer" -> 6
    [] previousStatus = "Awaiting Internal Review" -> 36
    [] previousStatus = "Pending" -> 3
    [] OTHER -> 0

\* Ticket status codes used by the filters.
OPEN == 2
TRIAGE == 29
FOLLOW_UP_REQUIRED == 23

undefined == -1

\* Array.prototype.includes on a sequence.
includes(seq, x) == \E i \in 1..Len(seq) : seq[i] = x

\* ------------------------------------------------------------ time policy
MinutesPerDay == 1440

\* new Date(date.toLocaleString("en-US", {timeZone: "America/New_York"})):
\* the wall-clock fields of the instant in New York, offset minutes behind UTC.
estDate(date) ==
  LET local == date.utc - date.offset
  IN [day |-> (local \div MinutesPerDay) % 7,
      hour |-> (local % MinutesPerDay) \div 60,
      minute |-> local % 60]

\* Faulty variant of isWeekendTime: the Friday test excludes the 18:00 hour.
isWeekendTime_lateFriday(date) ==
  LET d == estDate(date)
  IN \/ d.day = 5 /\ d.hour > 18
     \/ d.day = 6
     \/ d.day = 0
     \/ d.day = 1 /\ d.hour < 7

isWeekendTime(date) ==
  LET d == estDate(date)
  IN \/ d.day = 5 /\ d.hour >= 18
     \/ d.day = 6
     \/ d.day = 0
     \/ d.day = 1 /\ d.hour < 7

\* Faulty variant of isWithinAssignmentWindow: the 04:00 hour is open throughout.
isWithinAssignmentWindow_openEnd(date) ==
  LET d == estDate(date)
  IN \/ d.hour = 2 /\ d.minute >= 1
     \/ d.hour = 3
     \/ d.hour = 4

isWithinAssignmentWindow(date) ==
  LET d == estDate(date)
  IN \/ d.hour = 2 /\ d.minute >= 1
     \/ d.hour = 3
     \/ d.hour = 4 /\ d.minute = 0

\* Faulty variant of isWeekdayTime: Saturday counts as a weekday.
isWeekdayTime_withSaturday(date) ==
  LET d == estDate(date)
  IN d.day >= 1 /\ d.day <= 6

isWeekdayTime(date) ==
  LET d == estDate(date)
  IN d.day >= 1 /\ d.day <= 5

\* ---------------------------------------------------- resilient remote call
\* A script is what $request.invokeTemplate answers on attempts 1, 2, ...:
\* an HTTP status, or 0 for a rejected promise (transport error).  headers
\* holds the retry-after header of each answer, in seconds, undefined when
\* the answer carries none.

\* Faulty variant of retryAfterSeconds: the header is ignored.
retryAfterSeconds_fixed(header) == 10

\* Line 618: parseInt(response.headers['retry-after'] || '10', 10).
retryAfterSeconds(header) == IF header = undefined THEN 10 ELSE header

\* Faulty variant of isErrorStatus: only server errors count.
isErrorStatus_serverOnly(status) == status >= 500

\* Line 635.
isErrorStatus(status) == status >= 400

\* Lines 593-650: the attempt loop, from attempt on.  waits are the pauses,
\* in seconds, made so far between attempts.
RECURSIVE retryFrom(_, _, _, _, _)
retryFrom(script, headers, attempt, maxRetries, waits) ==
  IF attempt > maxRetries
  THEN [ok |-> FALSE, returned |-> FALSE, status |-> 0, invocations |-> attempt - 1,
        error |-> "", waits |-> waits]
  ELSE LET status == script[attempt]
           raise(error) ==
             IF attempt = maxRetries
             THEN [ok |-> FALSE, returned |-> FALSE, status |-> status,
                   invocations |-> attempt, error |-> error, waits |-> waits]
             ELSE retryFrom(script, headers, attempt + 1, maxRetries, Append(waits, 2))
       IN IF status = 0
          THEN raise("transport error")
          ELSE IF status = 429
          THEN IF attempt < maxRetries
               THEN retryFrom(script, headers, attempt + 1, maxRetries,
                              Append(waits, retryAfterSeconds(headers[attempt])))
               ELSE raise("Rate limited after attempts")
          ELSE IF isErrorStatus(status)
          THEN raise("API returned status")
          ELSE [ok |-> TRUE, returned |-> TRUE, status |-> status,
                invocations |-> attempt, error |-> "", waits |-> waits]

\* Line 592: maxRetries = 3 unless the caller says otherwise; no caller does.
makeAPICallWithRetry(script) ==
  retryFrom(script, [i \in DOMAIN script |-> undefined], 1, 3, <<>>)

\* ------------------------------------------------------------ call trace
\* One record per call the program makes: op is the request template (or the
\* $db operation), first the answer to the first invocation, invocations how
\* often the template was invoked, ok whether the caller got a response below 400.
NoTicket == [id |-> 0, status |-> 0, responder_id |-> 0, group_id |-> ""]

\* A call made through makeAPICallWithRetry.
retriedCall(op, ticket, value, script) ==
  LET response == makeAPICallWithRetry(script)
  IN [op |-> op, ticket |-> ticket, value |-> value, first |-> script[1],
      invocations |-> response.invocations, ok |-> response.ok]

\* A call made with $request.invokeTemplate itself (lines 541, 1399, 1412).
directCall(op, ticket, value, answer) ==
  [op |-> op, ticket |-> ticket, value |-> value, first |-> answer,
   invocations |-> 1, ok |-> answer # 0 /\ ~isErrorStatus(answer)]

\* A $db.get or $db.set.
storeCall(op) ==
  [op |-> op, ticket |-> NoTicket, value |-> 0, first |-> 200, invocations |-> 1,
   ok |-> TRUE]

\* ----------------------------------------------------------- free-form log
\* Faulty variant of addLog: a full log drops the new entry, not the oldest.
addLog_keepsOldest(logs, type, message, ticket_id) ==
  IF type = "" \/ message = ""
  THEN logs
  ELSE LET pushed == Append(logs, [type |-> type, message |-> message,
                                   ticket_id |-> ticket_id])
       IN IF Len(pushed) > 1000 THEN SubSeq(pushed, 1, 1000) ELSE pushed

\* Lines 79-117, on the array logs.
addLog(logs, type, message, ticket_id) ==
  IF type = "" \/ message = ""
  THEN logs
  ELSE LET pushed == Append(logs, [type |-> type, message |-> message,
                                   ticket_id |-> ticket_id])
       IN IF Len(pushed) > 1000
          THEN SubSeq(pushed, Len(pushed) - 1000 + 1, Len(pushed))
          ELSE pushed

\* ------------------------------------------------------------ audit stores
\* Faulty variant of keepLast: the newest entries are the ones dropped.
keepLast_dropsNewest(entries, max) ==
  IF Len(entries) > max THEN SubSeq(entries, 1, max) ELSE entries

\* Array.prototype.splice(0, length - max) after a push.
keepLast(entries, max) ==
  IF Len(entries) > max
  THEN SubSeq(entries, Len(entries) - max + 1, Len(entries))
  ELSE entries

\* Faulty variant of addAssignmentAttemptEntry: every attempt is stored as Failed.
addAssignmentAttemptEntry_allFailed(attempts, ticket_id, agent_name, group_id, result, error_message, tag_added, at) ==
  keepLast(Append(attempts,
      [ticket_id |-> ticket_id,
       agent_name |-> IF agent_name = "" THEN "Unknown" ELSE agent_name,
       group_id |-> group_id,
       attempted_at |-> at,
       result |-> "Failed",
       error_message |-> IF error_message = "" THEN "Unknown error" ELSE error_message,
       tag_added |-> tag_added]), 10000)

addAssignmentAttemptEntry(attempts, ticket_id, agent_name, group_id, result, error_message, tag_added, at) ==
  keepLast(Append(attempts,
      [ticket_id |-> ticket_id,
       agent_name |-> IF agent_name = "" THEN "Unknown" ELSE agent_name,
       group_id |-> group_id,
       attempted_at |-> at,
       result |-> IF result = "Success" THEN "Success" ELSE "Failed",
       error_message |-> IF result = "Failed"
                         THEN (IF error_message = "" THEN "Unknown error"
                               ELSE error_message)
                         ELSE "",
       tag_added |-> tag_added]), 10000)

\* Faulty variant of isRetained: an entry exactly at the cutoff is dropped.
isRetained_strict(t, cutoffTime) == t > cutoffTime

\* Line 1108; every attempted_at was written by line 1076 and parses.
isRetained(t, cutoffTime) == t >= cutoffTime

\* Lines 1096-1118.  The clock counts ticksPerDay units a day: minutes in a
\* run of the program, seconds where the purge is looked at on its own.
purgeOldAssignmentAttempts(attempts, nowTicks, ticksPerDay) ==
  LET cutoffTime == nowTicks - ASSIGNMENT_ATTEMPTS_RETENTION_DAYS * ticksPerDay
  IN SelectSeq(attempts, LAMBDA a : isRetained(a.attempted_at, cutoffTime))

addActivityEntry(entries, ticket_id, assigned_to, group_name, activity_type, overnight_tagged, at) ==
  keepLast(Append(entries,
      [ticket_id |-> ticket_id,
       assigned_to |-> assigned_to,
       group_name |-> group_name,
       activity_type |-> activity_type,
       overnight_tagged |-> overnight_tagged,
       created_at |-> at]), 10000)

addWeekendReversionEntry(reversions, ticket_id, agent_name, previous_status, at) ==
  keepLast(Append(reversions,
      [ticket_id |-> ticket_id,
       agent_name |-> agent_name,
       previous_status |-> previous_status,
       reverted_to_status |-> previous_status,
       reverted_at |-> at]), 5000)

purgeOldWeekendReversions(reversions, nowMin) ==
  LET cutoffTime == nowMin - WEEKEND_REVERSIONS_RETENTION_DAYS * 24 * 60
  IN SelectSeq(reversions, LAMBDA r : r.reverted_at >= cutoffTime)

\* ------------------------------------------------------- work-item fetcher
\* Line 673 and line 703.
maxPages == 50
PageSize == 100

\* Faulty variant of lookbackHours: the day is read from the UTC clock.
lookbackHours_utcDay(date) ==
  IF (date.utc \div MinutesPerDay) % 7 = 1 THEN 61 ELSE 24

\* Lines 659-663: isMonday ? 61 : 24, on the New York wall clock.
lookbackHours(date) == IF estDate(date).day = 1 THEN 61 ELSE 24

\* Lines 664-666: the updated_since filter, computed once before the loop.
updatedSince(date) == date.utc - lookbackHours(date) * 60

\* Faulty variant of isLastPage: only an empty page ends the fetch.
isLastPage_emptyOnly(length) == length = 0

\* Lines 688 and 703: a page that is empty or shorter than a full page is the last.
isLastPage(length) == length < PageSize

\* One page request through makeAPICallWithRetry; the page is shorter than
\* 100 items, so the pagination loop stops after it.  tickets = <<>> stands
\* for the null the function returns when nothing was fetched.  The value of
\* the request record is the number of tickets in the answer.
\* Faulty variant of getUnassignedTickets: the page is requested a second time.
getUnassignedTickets_twice(script, pageTickets) ==
  LET ticketsResponse == makeAPICallWithRetry(script)
      request == retriedCall("getUnassignedTickets", NoTicket,
                             IF ticketsResponse.ok THEN Len(pageTickets) ELSE 0, script)
  IN IF ~ticketsResponse.ok
     THEN [threw |-> TRUE, tickets |-> <<>>, requests |-> <<request>>]
     ELSE [threw |-> FALSE, tickets |-> pageTickets, requests |-> <<request, request>>]

getUnassignedTickets(script, pageTickets) ==
  LET ticketsResponse == makeAPICallWithRetry(script)
      requests == <<retriedCall("getUnassignedTickets", NoTicket,
                                IF ticketsResponse.ok THEN Len(pageTickets) ELSE 0, script)>>
  IN IF ~ticketsResponse.ok
     THEN [threw |-> TRUE, tickets |-> <<>>, requests |-> requests]
     ELSE [threw |-> FALSE, tickets |-> pageTickets, requests |-> requests]

\* Faulty variant of fetchOutcome: a failed fetch is taken for an empty one.
fetchOutcome_failureAsEmpty(fetched) ==
  IF Len(fetched.tickets) = 0 THEN "empty" ELSE "tickets"

\* Lines 176-180 and 250-253: how the scheduled handler sees the fetch; an
\* exception reaches the catch, null or an empty array the early return.
fetchOutcome(fetched) ==
  IF fetched.threw THEN "failed"
  ELSE IF Len(fetched.tickets) = 0 THEN "empty"
  ELSE "tickets"

\* ------------------------------------------------ handler directory builder
\* world: what the remote system answers while the directory is built.
\*   pages[p].script, pages[p].agents  the agents page number p
\*   groupScript[g], members[g]        the membership list of monitored group g
\*   detailScript[id], detail[id]      the per-agent detail lookup
\* Line 792: a page of this many agents or more is followed by another request.
AgentPageSize == 30

\* The answer to the request for agents page number page: past the last page
\* the remote system answers an empty list.
agentsPage(world, page) ==
  IF page \in DOMAIN world.pages THEN world.pages[page]
  ELSE [script |-> <<200, 200, 200>>, agents |-> <<>>]

\* Lines 779-809: the page loop from page on.  A page request that fails
\* after its retries ends the loop (805-808) with what was collected.
RECURSIVE fetchAgentPages(_, _, _, _)
fetchAgentPages(world, page, collected, requests) ==
  LET answer == agentsPage(world, page)
      agentsResponse == makeAPICallWithRetry(answer.script)
      request == retriedCall(IF page = 1 THEN "getAgents" ELSE "getAgentsPage",
                             NoTicket, page, answer.script)
  IN IF ~agentsResponse.ok
     THEN [agents |-> collected, requests |-> Append(requests, request)]
     ELSE IF Len(answer.agents) >= AgentPageSize
     THEN fetchAgentPages(world, page + 1, collected \o answer.agents,
                          Append(requests, request))
     ELSE [agents |-> collected \o answer.agents, requests |-> Append(requests, request)]

getActiveAgents(world) ==
  LET fetchedPages == fetchAgentPages(world, 1, <<>>, <<>>)
      agents == fetchedPages.agents
      groupsOk == \A i \in 1..Len(supportedGroups) :
                    makeAPICallWithRetry(world.groupScript[supportedGroups[i]]).ok
      agentGroupMap(id) ==
        {supportedGroups[i] : i \in {j \in 1..Len(supportedGroups) :
                                       includes(world.members[supportedGroups[j]], id)}}
      detailResp(id) == makeAPICallWithRetry(world.detailScript[id])
      enrich(agent) ==
        [id |-> agent.id,
         name |-> agent.name,
         occasional |-> agent.occasional,
         deactivated |-> agent.deactivated,
         group_ids |-> agentGroupMap(agent.id),
         available |-> IF agent.available = "undefined" /\ detailResp(agent.id).ok
                       THEN (IF world.detail[agent.id] THEN "true" ELSE "false")
                       ELSE agent.available]
      pageRequests == fetchedPages.requests
      groupRequest(i) == retriedCall("getGroup", NoTicket, i,
                                     world.groupScript[supportedGroups[i]])
      \* lines 812-817 run in order and stop at the first call that throws
      groupRequests ==
        [i \in 1..Cardinality({j \in 1..Len(supportedGroups) :
                                 \A k \in 1..(j - 1) : groupRequest(k).ok}) |->
           groupRequest(i)]
      unresolved == SelectSeq(agents, LAMBDA agent : agent.available = "undefined")
      detailRequests ==
        [i \in 1..Len(unresolved) |->
           retriedCall("getAgentDetails", NoTicket, unresolved[i].id,
                       world.detailScript[unresolved[i].id])]
  IN IF ~groupsOk
     THEN [threw |-> TRUE, agents |-> <<>>,
           requests |-> pageRequests \o groupRequests]
     ELSE [threw |-> FALSE, agents |-> [i \in 1..Len(agents) |-> enrich(agents[i])],
           requests |-> pageRequests \o groupRequests \o detailRequests]

\* --------------------------------------------------------- rotation state
EmptyIndices == [g \in DOMAIN GROUP_NAMES_BY_ID |-> undefined]

\* Faulty variant of loadAgentIndicesByGroup: the stored state is ignored.
loadAgentIndicesByGroup_fresh(storedData) == EmptyIndices

loadAgentIndicesByGroup(storedData) ==
  IF storedData.present THEN storedData.indices ELSE EmptyIndices

saveAgentIndicesByGroup(indices) == [present |-> TRUE, indices |-> indices]

\* Faulty variant of resolveIndex: the bounds test is off by one.
resolveIndex_offByOne(currentIndex, n) ==
  IF currentIndex = undefined \/ currentIndex > n THEN 0 ELSE currentIndex

\* Lines 958-966: the index the engine uses for a group with n eligible agents.
resolveIndex(currentIndex, n) ==
  IF currentIndex = undefined \/ currentIndex >= n THEN 0 ELSE currentIndex

\* Line 966: groupAgents[agentIndex]; an index past the end reads undefined.
agentAt(groupAgents, agentIndex) ==
  IF agentIndex + 1 \in DOMAIN groupAgents
  THEN groupAgents[agentIndex + 1]
  ELSE [id |-> 0, name |-> "", occasional |-> FALSE, deactivated |-> FALSE,
        group_ids |-> {}, available |-> "undefined"]

\* Faulty variant of nextIndex: the rotation skips a handler.
nextIndex_skipsOne(agentIndex, n) == (agentIndex + 2) % n

\* Line 1033.
nextIndex(agentIndex, n) == (agentIndex + 1) % n

\* Faulty variant of indexAfterAttempt: a failed call leaves the index where it was.
indexAfterAttempt_onlyOnSuccess(succeeded, agentIndex, n) ==
  IF succeeded THEN nextIndex(agentIndex, n) ELSE agentIndex

\* Line 1033 runs after the try/catch of lines 968-1030: the index moves on
\* whether the assignment call succeeded or not.
indexAfterAttempt(succeeded, agentIndex, n) == nextIndex(agentIndex, n)

\* Faulty variant of assignmentOutcome: an audit entry that could not be
\* stored turns the assignment into an error.
assignmentOutcome_needsAudit(assigned, persisted) ==
  IF assigned /\ persisted THEN "assigned" ELSE "error"

\* Lines 968-1030: the catch is reached by the assignment call alone; the
\* tag, log and audit helpers called after it never raise.
assignmentOutcome(assigned, persisted) == IF assigned THEN "assigned" ELSE "error"

\* Faulty variant of tally: a failed assignment is not counted.
tally_dropsErrors(c, outcome) ==
  CASE outcome = "assigned" -> [c EXCEPT !.assigned = @ + 1]
    [] outcome = "skipped" -> [c EXCEPT !.skipped = @ + 1]
    [] outcome = "error" -> c

\* Lines 918, 932, 954, 1010 and 1029: the three counters of the loop.
tally(c, outcome) ==
  CASE outcome = "assigned" -> [c EXCEPT !.assigned = @ + 1]
    [] outcome = "skipped" -> [c EXCEPT !.skipped = @ + 1]
    [] outcome = "error" -> [c EXCEPT !.errors = @ + 1]

\* Faulty variant of groupAgentsOf: an unresolved availability counts as available.
groupAgentsOf_notFalse(agents, ticketGroupId) ==
  SelectSeq(agents, LAMBDA agent :
      ticketGroupId \in agent.group_ids /\ agent.available # "false")

\* Lines 937-939.
groupAgentsOf(agents, ticketGroupId) ==
  SelectSeq(agents, LAMBDA agent :
      ticketGroupId \in agent.group_ids /\ agent.available = "true")

\* Faulty variant of indicesAfterSkip: a skipped ticket moves the rotation of West.
indicesAfterSkip_advances(indices, ticketGroupId) ==
  [indices EXCEPT ![West] = IF @ = undefined THEN 1 ELSE @ + 1]

\* Lines 908-956: each of the three skips ends in 'continue' before line 958,
\* the first line that writes agentIndexByGroup.
indicesAfterSkip(indices, ticketGroupId) == indices

\* Faulty variant of skipReason: the test for a missing group is gone.
skipReason_noGroupTest(ticketGroupId, groupAgents) ==
  IF ~includes(supportedGroups, ticketGroupId)
  THEN "Unsupported group for auto-assignment"
  ELSE IF Len(groupAgents) = 0 THEN "No agents available in group"
  ELSE ""

\* Lines 908, 922 and 941: why the loop skips a ticket; "" when it does not.
skipReason(ticketGroupId, groupAgents) ==
  IF ticketGroupId = "" THEN "Ticket has no group assigned"
  ELSE IF ~includes(supportedGroups, ticketGroupId)
  THEN "Unsupported group for auto-assignment"
  ELSE IF Len(groupAgents) = 0 THEN "No agents available in group"
  ELSE ""

\* Faulty variant of selectForReversion: the group filter is gone.
selectForReversion_anyGroup(tickets) ==
  SelectSeq(tickets, LAMBDA ticket : ticket.status = FOLLOW_UP_REQUIRED)

\* Lines 1439-1447: the tickets the reversion engine works on.
selectForReversion(tickets) ==
  SelectSeq(SelectSeq(tickets, LAMBDA ticket : ticket.status = FOLLOW_UP_REQUIRED),
            LAMBDA ticket : includes(supportedGroups, ticket.group_id))

\* Faulty variant of isEligibleTicket: the status test is gone.
isEligibleTicket_anyStatus(ticket) == ticket.responder_id = 0

\* Faulty variant of isEligibleTicket: the responder test is gone.
isEligibleTicket_anyResponder(ticket) == ticket.status = OPEN \/ ticket.status = TRIAGE

\* Lines 215-219.
isEligibleTicket(ticket) ==
  ticket.responder_id = 0 /\ (ticket.status = OPEN \/ ticket.status = TRIAGE)

\* addOvernightTag: fetch the ticket's tags, then write them with 'overnight'.
addOvernightTag(tagEnv) ==
  LET getResp == makeAPICallWithRetry(tagEnv.getScript)
  IN IF ~getResp.ok THEN FALSE
     ELSE IF tagEnv.alreadyTagged THEN TRUE
     ELSE makeAPICallWithRetry(tagEnv.putScript).ok

\* The requests addOvernightTag makes for ticket (lines 1257-1275): the
\* ticket is fetched, and its tags are written unless the fetch failed or the
\* tag is there already.
tagRequests(ticket, tagEnv) ==
  LET getRequest == retriedCall("getSpecificTicket", ticket, 0, tagEnv.getScript)
  IN IF ~getRequest.ok \/ tagEnv.alreadyTagged
     THEN <<getRequest>>
     ELSE <<getRequest, retriedCall("addTicketTag", ticket, 0, tagEnv.putScript)>>

\* Faulty variant of tagAdded: the tag is recorded whether or not it was added.
tagAdded_always(overnightTagAdded) == "overnight"

\* Line 1007: tag_added of the Success attempt; "" stands for null.
tagAdded(overnightTagAdded) == IF overnightTagAdded THEN "overnight" ELSE ""

isServiceEnabled(service_status) == service_status # "false"

\* global.appConfig.service_status as line 581 finds it when the installation
\* parameters are params.  No line of server.js assigns global.appConfig and
\* no handler reads payload.iparams: the global is undefined whatever the
\* configuration page stored.
appConfigStatus(params) == "unset"

\* ------------------------------------------------------------------ state
VARIABLES
  pc,                 \* position of the running operation; "idle" between runs
  mode,               \* "scheduled" | "test" | "legacy": the operation running
  runs,               \* operations started so far
  now,                \* [utc, offset] read at the start of the operation
  allTickets,         \* result of getUnassignedTickets
  supportedTickets,   \* reversion loop: the selected tickets
  revPos,             \* reversion loop: next position
  revertedCount,
  unassignedTickets,  \* assignment loop: the filtered tickets
  allAgents,          \* directory built by getActiveAgents
  pos,                \* assignment loop: next position
  counts,             \* [assigned, skipped, errors]
  agentIndexByGroup,  \* in-memory rotation state
  dbIndices,          \* $db 'agent_indices_by_group'
  attemptsDb,         \* $db 'assignment_attempts_v1'
  activityDb,         \* $db 'activity_log_v1'
  reversionsDb,       \* $db 'weekend_reversions_v1'
  inMemoryLogs,
  calls,              \* history: remote mutations issued by the current operation
  steps,              \* history: one record per iteration of the assignment loop
  lastRun,            \* history: rotation state and directory when the last loop ended
  dbDown,             \* environment: the $db operations, of "get" and "set", that fail now
  iparams,            \* installation parameters as the configuration page stored them
  arg,                \* the input of a function evaluated on its own
  result              \* what that function returned, <<>> before it has run

programVars == <<pc, mode, runs, now, allTickets, supportedTickets, revPos, revertedCount,
                 unassignedTickets, allAgents, pos, counts, agentIndexByGroup, dbIndices,
                 attemptsDb, activityDb, reversionsDb, inMemoryLogs, calls, steps, lastRun,
                 dbDown, iparams>>

envVars == <<dbDown, iparams>>

pureVars == <<arg, result>>

vars == <<programVars, pureVars>>

loopVars == <<supportedTickets, revPos, revertedCount, unassignedTickets, allAgents,
              pos, counts>>
stores == <<dbIndices, attemptsDb, activityDb, reversionsDb>>

ZeroCounts == [assigned |-> 0, skipped |-> 0, errors |-> 0]

\* $db.get under the try/catch of its caller (885-893, 1054-1062, 1123-1129,
\* 1289-1298): a rejected get reads as the missing key.
dbGet(stored, missing) == IF "get" \in dbDown THEN missing ELSE stored

\* $db.set under the try/catch of its caller (1041-1048, 1090-1093, 1112-1117,
\* 1157-1160, 1326-1329, 1348-1354): a rejected set leaves the key as it was.
dbSet(stored, value) == IF "set" \in dbDown THEN stored ELSE value

\* Lines 1096-1118 and 1331-1355: the purge writes only when it dropped something.
\* filtered is what the filter kept of the entries read from the store.
purgeStore(stored, filtered) ==
  IF Len(filtered) # Len(dbGet(stored, <<>>)) THEN dbSet(stored, filtered) ELSE stored

\* Faulty variant of caughtByHandler: the fetch is made in front of the try.
caughtByHandler_fetchOutside(site) == site \in {"directory", "assignment"}

\* Lines 174-253: the statements of the scheduled handler that stand inside
\* its try block; an exception raised by one of them ends in its catch.
caughtByHandler(site) == site \in {"fetch", "directory", "assignment"}

\* An exception leaves the handler: the platform sees the run fail.
Propagate ==
  /\ pc' = "crashed"
  /\ allTickets' = <<>>
  /\ supportedTickets' = <<>>
  /\ revPos' = 0
  /\ revertedCount' = 0
  /\ unassignedTickets' = <<>>
  /\ allAgents' = <<>>
  /\ pos' = 0
  /\ counts' = ZeroCounts

\* Leaving an operation: the locals of the handler are gone.
EndOperation ==
  /\ pc' = "idle"
  /\ allTickets' = <<>>
  /\ supportedTickets' = <<>>
  /\ revPos' = 0
  /\ revertedCount' = 0
  /\ unassignedTickets' = <<>>
  /\ allAgents' = <<>>
  /\ pos' = 0
  /\ counts' = ZeroCounts

\* Faulty variant of legacyOperation: nothing is logged.
legacyOperation_silent(logs) == logs

\* Lines 253-255: any other operation is only logged.
legacyOperation(logs) == addLog(logs, "info", "Legacy operation", 0)

\* ----------------------------------------------------------------- actions
\* onScheduledEventHandler, lines 169-180 and 250-256: read the clock and the
\* operation, fetch the tickets once.
\* fetched is what getUnassignedTickets did: whether it threw, the tickets it
\* returned and the requests it made.
startRun(operation, t, fetched) ==
  /\ runs' = runs + 1
  /\ now' = t
  /\ calls' = IF operation = "combined_operations" THEN fetched.requests ELSE <<>>
  /\ steps' = <<>>
  /\ UNCHANGED <<agentIndexByGroup, stores, lastRun>>
  /\ IF operation # "combined_operations"
     THEN /\ mode' = "legacy"
          /\ inMemoryLogs' = legacyOperation(inMemoryLogs)
          /\ EndOperation
     ELSE /\ mode' = "scheduled"
          /\ IF fetchOutcome(fetched) = "failed"
             THEN IF caughtByHandler("fetch")
                  THEN /\ inMemoryLogs' = addLog(inMemoryLogs, "error",
                                                 "Error during combined operations", 0)
                       /\ EndOperation
                  ELSE /\ Propagate
                       /\ UNCHANGED inMemoryLogs
             ELSE IF fetchOutcome(fetched) = "empty"
             THEN /\ inMemoryLogs' = addLog(inMemoryLogs, "info",
                                            "No tickets found to process", 0)
                  /\ EndOperation
             ELSE /\ pc' = "fetched"
                  /\ allTickets' = fetched.tickets
                  /\ UNCHANGED <<inMemoryLogs, loopVars>>

onScheduledEventHandler(limit, Ops, Times, Pages, Scripts) ==
  /\ pc = "idle"
  /\ UNCHANGED <<pureVars, envVars>>
  /\ runs < limit
  /\ \E operation \in Ops, t \in Times, page \in Pages, script \in Scripts :
       startRun(operation, t, getUnassignedTickets(script, page))

\* testWeekendReversion, lines 489-510, up to the call of the reversion engine.
testWeekendReversion(limit, Times, Pages, Scripts) ==
  /\ pc = "idle"
  /\ UNCHANGED <<pureVars, envVars>>
  /\ runs < limit
  /\ \E t \in Times, page \in Pages, script \in Scripts :
       LET fetched == getUnassignedTickets(script, page)
           started == addLog(inMemoryLogs, "info",
                             "Manual test of weekend reversion started", 0)
       IN /\ runs' = runs + 1
          /\ now' = t
          /\ mode' = "test"
          /\ calls' = fetched.requests
          /\ steps' = <<>>
          /\ UNCHANGED <<agentIndexByGroup, stores, lastRun>>
          /\ IF fetched.threw
             THEN /\ inMemoryLogs' = addLog(started, "error",
                                            "Error in testWeekendReversion", 0)
                  /\ EndOperation
             ELSE IF Len(fetched.tickets) = 0
             THEN /\ inMemoryLogs' = addLog(started, "info",
                                            "No tickets found for testing", 0)
                  /\ EndOperation
             ELSE /\ pc' = "fetched"
                  /\ allTickets' = fetched.tickets
                  /\ inMemoryLogs' = started
                  /\ UNCHANGED loopVars

\* checkSpecificTicket, lines 536-573: one direct request, nothing stored.
checkSpecificTicket(limit, Answers) ==
  /\ pc = "idle"
  /\ UNCHANGED <<pureVars, envVars>>
  /\ runs < limit
  /\ \E answer \in Answers :
       calls' = <<directCall("getSpecificTicket", NoTicket, 0, answer)>>
  /\ runs' = runs + 1
  /\ mode' = "check"
  /\ steps' = <<>>
  /\ UNCHANGED <<pc, now, allTickets, loopVars, agentIndexByGroup, stores, inMemoryLogs,
                 lastRun>>

\* Where an operation continues once the reversion engine has returned.
AfterReversion ==
  IF mode = "scheduled"
  THEN /\ pc' = "gate"
       /\ UNCHANGED <<allTickets, unassignedTickets, allAgents, pos, counts>>
  ELSE /\ pc' = "idle"
       /\ allTickets' = <<>>
       /\ unassignedTickets' = <<>>
       /\ allAgents' = <<>>
       /\ pos' = 0
       /\ counts' = ZeroCounts

\* Lines 182-191 of the scheduled handler (line 502 of the test operation) and
\* the head of handleWeekendStatusReversion, lines 1434-1452.
WeekendPhase ==
  /\ pc = "fetched"
  /\ UNCHANGED <<pureVars, envVars>>
  /\ UNCHANGED <<mode, runs, now, agentIndexByGroup, dbIndices, attemptsDb, activityDb,
                 inMemoryLogs, steps, lastRun>>
  /\ IF mode = "scheduled" /\ ~isWeekendTime(now)
     THEN /\ pc' = "gate"
          /\ UNCHANGED <<allTickets, loopVars, reversionsDb, calls>>
     ELSE LET selected == selectForReversion(allTickets)
          IN /\ reversionsDb' = purgeStore(reversionsDb,
                                purgeOldWeekendReversions(dbGet(reversionsDb, <<>>),
                                                          now.utc))
             /\ calls' = Append(calls, storeCall("purgeOldWeekendReversions"))
             /\ IF Len(selected) = 0
                THEN /\ supportedTickets' = <<>>
                     /\ revPos' = 0
                     /\ revertedCount' = 0
                     /\ AfterReversion
                ELSE /\ pc' = "revert"
                     /\ supportedTickets' = selected
                     /\ revPos' = 1
                     /\ revertedCount' = 0
                     /\ UNCHANGED <<allTickets, unassignedTickets, allAgents, pos, counts>>

determinePreviousStatus == "Waiting on Customer"

\* revertTicketStatus, lines 1386-1431.  update and note are what
\* $request.invokeTemplate answers: an HTTP status, or 0 for a rejection.
revertTicketStatus(previousStatus, update, note) ==
  IF STATUS_MAPPINGS(previousStatus) = 0
  THEN [success |-> FALSE, updateIssued |-> FALSE, noteIssued |-> FALSE]
  ELSE IF update = 0 \/ update >= 400
  THEN [success |-> FALSE, updateIssued |-> TRUE, noteIssued |-> FALSE]
  ELSE [success |-> note # 0, updateIssued |-> TRUE, noteIssued |-> TRUE]

\* One iteration of the loop of handleWeekendStatusReversion, lines 1454-1521,
\* and the return of line 1523 after the last one.
RevertStep(Responses) ==
  /\ pc = "revert"
  /\ UNCHANGED <<pureVars, envVars>>
  /\ revPos <= Len(supportedTickets)
  /\ \E update \in Responses, note \in Responses :
       LET ticket == supportedTickets[revPos]
           previousStatus == determinePreviousStatus
           r == revertTicketStatus(previousStatus, update, note)
           updateCall == directCall("updateTicketStatus", ticket,
                                    STATUS_MAPPINGS(previousStatus), update)
           noteCall == directCall("addTicketNote", ticket, 0, note)
           last == revPos = Len(supportedTickets)
       IN /\ calls' = calls \o (IF r.updateIssued THEN <<updateCall>> ELSE <<>>)
                            \o (IF r.noteIssued THEN <<noteCall>> ELSE <<>>)
          /\ IF r.success
             THEN /\ revertedCount' = revertedCount + 1
                  /\ reversionsDb' = dbSet(reversionsDb,
                        addWeekendReversionEntry(dbGet(reversionsDb, <<>>), ticket.id,
                          IF ticket.responder_id # 0 THEN "Agent ID" ELSE "Unassigned",
                          previousStatus, now.utc))
                  /\ inMemoryLogs' = addLog(inMemoryLogs, "info",
                        "Ticket reverted from Follow-up Required", ticket.id)
                  /\ activityDb' = dbSet(activityDb,
                        addActivityEntry(dbGet(activityDb, <<>>), ticket.id, "",
                          GROUP_NAMES_BY_ID[ticket.group_id], "status_reversion",
                          FALSE, now.utc))
             ELSE UNCHANGED <<revertedCount, reversionsDb, inMemoryLogs, activityDb>>
          /\ IF last
             THEN /\ supportedTickets' = <<>>
                  /\ revPos' = 0
                  /\ AfterReversion
             ELSE /\ revPos' = revPos + 1
                  /\ UNCHANGED <<pc, supportedTickets, allTickets, unassignedTickets,
                                 allAgents, pos, counts>>
          /\ UNCHANGED <<mode, runs, now, agentIndexByGroup, dbIndices, attemptsDb, steps,
                         lastRun>>

\* Lines 193-232 of the scheduled handler: the gates in front of the
\* assignment loop, the retention purge, the directory and the rotation state.
AssignmentGate(ServiceStatuses, Worlds) ==
  /\ pc = "gate"
  /\ UNCHANGED <<pureVars, envVars>>
  /\ UNCHANGED <<mode, runs, now, dbIndices, activityDb, reversionsDb, steps, lastRun>>
  /\ IF ~isWithinAssignmentWindow(now)
     THEN /\ inMemoryLogs' = addLog(inMemoryLogs, "info", "Outside assignment window", 0)
          /\ EndOperation
          /\ UNCHANGED <<attemptsDb, agentIndexByGroup, calls>>
     ELSE IF ~isWeekdayTime(now)
     THEN /\ inMemoryLogs' = addLog(inMemoryLogs, "info", "Weekend detected", 0)
          /\ EndOperation
          /\ UNCHANGED <<attemptsDb, agentIndexByGroup, calls>>
     ELSE
       /\ attemptsDb' = purgeStore(attemptsDb,
             purgeOldAssignmentAttempts(dbGet(attemptsDb, <<>>), now.utc, MinutesPerDay))
       /\ \E service_status \in ServiceStatuses, world \in Worlds :
            LET filtered == SelectSeq(allTickets, isEligibleTicket)
                directory == getActiveAgents(world)
                purged == Append(calls, storeCall("purgeOldAssignmentAttempts"))
            IN IF ~isServiceEnabled(service_status)
               THEN /\ inMemoryLogs' = addLog(inMemoryLogs, "info", "Service disabled", 0)
                    /\ EndOperation
                    /\ calls' = purged
                    /\ UNCHANGED agentIndexByGroup
               ELSE IF Len(filtered) = 0
               THEN /\ inMemoryLogs' = addLog(inMemoryLogs, "info",
                                              "No unassigned tickets found for assignment", 0)
                    /\ EndOperation
                    /\ calls' = purged
                    /\ UNCHANGED agentIndexByGroup
               ELSE IF directory.threw
               THEN /\ IF caughtByHandler("directory")
                       THEN /\ inMemoryLogs' = addLog(inMemoryLogs, "error",
                                                      "Error during combined operations", 0)
                            /\ EndOperation
                       ELSE /\ Propagate
                            /\ UNCHANGED inMemoryLogs
                    /\ calls' = purged \o directory.requests
                    /\ UNCHANGED agentIndexByGroup
               ELSE IF Len(directory.agents) = 0
               THEN /\ inMemoryLogs' = addLog(inMemoryLogs, "error",
                                              "No agents available for assignment", 0)
                    /\ EndOperation
                    /\ calls' = purged \o directory.requests
                    /\ UNCHANGED agentIndexByGroup
               ELSE /\ agentIndexByGroup' = loadAgentIndicesByGroup(
                          dbGet(dbIndices, [present |-> FALSE, indices |-> EmptyIndices]))
                    /\ calls' = purged \o directory.requests
                                      \o <<storeCall("loadAgentIndicesByGroup")>>
                    /\ pc' = "assign"
                    /\ unassignedTickets' = filtered
                    /\ allAgents' = directory.agents
                    /\ pos' = 1
                    /\ counts' = ZeroCounts
                    /\ UNCHANGED <<allTickets, supportedTickets, revPos, revertedCount,
                                   inMemoryLogs>>

\* One iteration of the loop of assignTicketsInRoundRobin, lines 905-1034.
AssignStep(Scripts, TagEnvs) ==
  /\ pc = "assign"
  /\ UNCHANGED <<pureVars, envVars>>
  /\ pos <= Len(unassignedTickets)
  /\ pos' = pos + 1
  /\ UNCHANGED <<pc, mode, runs, now, allTickets, supportedTickets, revPos, revertedCount,
                 unassignedTickets, allAgents, dbIndices, reversionsDb, lastRun>>
  /\ LET ticket == unassignedTickets[pos]
         ticketGroupId == ticket.group_id
         groupAgents == groupAgentsOf(allAgents, ticketGroupId)
         reason == skipReason(ticketGroupId, groupAgents)
     IN IF reason # ""
        THEN /\ inMemoryLogs' = addLog(inMemoryLogs, "info", "Ticket skipped", ticket.id)
             /\ attemptsDb' = dbSet(attemptsDb,
                    addAssignmentAttemptEntry(dbGet(attemptsDb, <<>>), ticket.id, "",
                                              ticketGroupId, "Failed", reason, "", now.utc))
             /\ counts' = tally(counts, "skipped")
             /\ steps' = Append(steps,
                    [ticket |-> ticket, outcome |-> "skipped", before |-> undefined,
                     index |-> undefined, n |-> 0, agent |-> 0, after |-> undefined,
                     detail |-> reason])
             /\ agentIndexByGroup' = indicesAfterSkip(agentIndexByGroup, ticketGroupId)
             /\ UNCHANGED <<activityDb, calls>>
        ELSE \E script \in Scripts, tagEnv \in TagEnvs :
          LET currentIndex == agentIndexByGroup[ticketGroupId]
              agentIndex == resolveIndex(currentIndex, Len(groupAgents))
              agent == agentAt(groupAgents, agentIndex)
              response == makeAPICallWithRetry(script)
              overnightTagAdded == addOvernightTag(tagEnv)
              newIndex == indexAfterAttempt(response.ok, agentIndex, Len(groupAgents))
              outcome == assignmentOutcome(response.ok, "set" \notin dbDown)
          IN /\ calls' = Append(calls, retriedCall("assignTicket", ticket, agent.id, script))
                         \o (IF response.ok THEN tagRequests(ticket, tagEnv) ELSE <<>>)
             /\ agentIndexByGroup' = [agentIndexByGroup EXCEPT ![ticketGroupId] = newIndex]
             /\ counts' = tally(counts, outcome)
             /\ steps' = Append(steps,
                    [ticket |-> ticket, outcome |-> outcome, before |-> currentIndex,
                     index |-> agentIndex, n |-> Len(groupAgents), agent |-> agent.id,
                     after |-> newIndex, detail |-> response.error])
             /\ IF response.ok
                THEN /\ inMemoryLogs' = addLog(inMemoryLogs, "info", "Ticket assigned",
                                               ticket.id)
                     /\ activityDb' = dbSet(activityDb,
                           addActivityEntry(dbGet(activityDb, <<>>), ticket.id, agent.name,
                             GROUP_NAMES_BY_ID[ticketGroupId], "assignment",
                             overnightTagAdded, now.utc))
                     /\ attemptsDb' = dbSet(attemptsDb,
                           addAssignmentAttemptEntry(dbGet(attemptsDb, <<>>), ticket.id,
                             agent.name, ticketGroupId, "Success", "",
                             tagAdded(overnightTagAdded), now.utc))
                ELSE /\ inMemoryLogs' = addLog(inMemoryLogs, "error",
                                               "Ticket assignment failed", ticket.id)
                     /\ attemptsDb' = dbSet(attemptsDb,
                           addAssignmentAttemptEntry(dbGet(attemptsDb, <<>>), ticket.id,
                             agent.name, ticketGroupId, "Failed", response.error, "",
                             now.utc))
                     /\ UNCHANGED activityDb

\* Lines 234-248: the loop has returned; save the rotation state, log the summary.
FinishRun ==
  /\ pc = "assign"
  /\ UNCHANGED <<pureVars, envVars>>
  /\ pos > Len(unassignedTickets)
  /\ dbIndices' = dbSet(dbIndices, saveAgentIndicesByGroup(agentIndexByGroup))
  /\ inMemoryLogs' = addLog(inMemoryLogs, "info", "Run completed", 0)
  /\ lastRun' = [valid |-> TRUE, indices |-> agentIndexByGroup, agents |-> allAgents]
  /\ EndOperation
  /\ calls' = Append(calls, storeCall("saveAgentIndicesByGroup"))
  /\ UNCHANGED <<mode, runs, now, agentIndexByGroup, attemptsDb, activityDb, reversionsDb,
                 steps>>

\* The serverless process is replaced: module-level variables start afresh.
ProcessRestart ==
  /\ pc = "idle"
  /\ UNCHANGED <<pureVars, envVars>>
  /\ 0 < runs /\ runs < MaxRuns
  /\ agentIndexByGroup # EmptyIndices \/ inMemoryLogs # <<>>
  /\ agentIndexByGroup' = EmptyIndices
  /\ inMemoryLogs' = <<>>
  /\ UNCHANGED <<pc, mode, runs, now, allTickets, loopVars, stores, calls, steps, lastRun>>

\* ------------------------------------------------------------------ inputs
\* New York is 300 minutes behind UTC in winter and 240 in summer.
EST == 300
EDT == 240

\* The instant that reads day/hour:minute on a New York wall clock.
At(day, hour, minute, offset) ==
  [utc |-> 7 * MinutesPerDay + day * MinutesPerDay + hour * 60 + minute + offset,
   offset |-> offset]

RunTimes ==
  {At(1, 2, 1, EST),    \* Monday 02:01: weekend window and assignment window
   At(2, 3, 0, EDT),    \* Tuesday 03:00: assignment window only
   At(2, 4, 1, EST),    \* Tuesday 04:01: just after the assignment window
   At(6, 3, 0, EDT),    \* Saturday 03:00: weekend, weekday gate closes
   At(5, 18, 0, EST),   \* Friday 18:00: weekend window opens
   At(3, 12, 0, EDT)}   \* Wednesday noon

\* When an admin presses the test button: inside and outside the weekend window.
TestTimes == {At(6, 3, 0, EDT), At(3, 12, 0, EDT)}

Operations == {"combined_operations", "assign_tickets"}

\* What a ticket of the fetched page can look like.
TicketKinds ==
  {[status |-> OPEN, responder_id |-> 0, group_id |-> West],
   [status |-> TRIAGE, responder_id |-> 0, group_id |-> Triage],
   [status |-> OPEN, responder_id |-> 0, group_id |-> ""],
   [status |-> TRIAGE, responder_id |-> 0, group_id |-> OtherGroup],
   [status |-> OPEN, responder_id |-> 7, group_id |-> West],
   [status |-> FOLLOW_UP_REQUIRED, responder_id |-> 0, group_id |-> West],
   [status |-> FOLLOW_UP_REQUIRED, responder_id |-> 7, group_id |-> OtherGroup]}

\* Pages of at most max tickets; the id of a ticket is its position.
PagesOf(Kinds, max) ==
  UNION {{[i \in 1..m |-> [id |-> i, status |-> f[i].status,
                           responder_id |-> f[i].responder_id,
                           group_id |-> f[i].group_id]] : f \in [1..m -> Kinds]}
         : m \in 0..max}

\* Answers of the remote system to the three attempts of one call.
Succeeds == <<200, 200, 200>>
RunScripts == {Succeeds, <<429, 0, 200>>, <<500, 500, 500>>}

\* One call that succeeds at once, one that fails for good.
RunsScripts == {Succeeds, <<500, 500, 500>>}

\* Answers to a direct (unretried) call.
Responses == {200, 429, 500, 0}

TagEnvs ==
  {[getScript |-> Succeeds, alreadyTagged |-> FALSE, putScript |-> Succeeds],
   [getScript |-> Succeeds, alreadyTagged |-> FALSE, putScript |-> <<500, 500, 500>>]}

ServiceStatuses == {"true", "false", "unset"}

\* The remote agent population: agents 1..3 are members of West, 2 and 3 of
\* Triage, agent 4 of no monitored group.
AgentNames == <<"Alice", "Bob", "Carol", "Dave">>

Members ==
  [g \in DOMAIN GROUP_NAMES_BY_ID |->
     CASE g = West -> <<1, 2, 3>>
       [] g = Triage -> <<3, 2>>
       [] OTHER -> <<>>]

MkWorld(pageScript, groupScript, avail, detailOk) ==
  [pages |-> <<[script |-> pageScript,
                agents |-> [i \in 1..Len(AgentNames) |->
                              [id |-> i, name |-> AgentNames[i],
                               occasional |-> FALSE, deactivated |-> FALSE,
                               available |-> avail[i]]]]>>,
   groupScript |-> [g \in DOMAIN GROUP_NAMES_BY_ID |->
                      IF g = SupportOps THEN groupScript ELSE Succeeds],
   members |-> Members,
   detailScript |-> [i \in 1..Len(AgentNames) |->
                       IF detailOk THEN Succeeds ELSE <<0, 0, 0>>],
   detail |-> [i \in 1..Len(AgentNames) |-> i # 2]]

\* A population of two agents pages: a full first page, agents 1..30, and a
\* second page with agent 31, a member of West; secondScript answers the
\* request for the second page.
MkPagedWorld(secondScript, groupScript) ==
  [pages |-> <<[script |-> Succeeds,
                agents |-> [i \in 1..AgentPageSize |->
                              [id |-> i,
                               name |-> IF i \in DOMAIN AgentNames THEN AgentNames[i]
                                        ELSE "Agent",
                               occasional |-> FALSE, deactivated |-> FALSE,
                               available |-> "true"]]],
               [script |-> secondScript,
                agents |-> <<[id |-> AgentPageSize + 1, name |-> "Erin",
                              occasional |-> FALSE, deactivated |-> FALSE,
                              available |-> "true"]>>]>>,
   groupScript |-> [g \in DOMAIN GROUP_NAMES_BY_ID |->
                      IF g = SupportOps THEN groupScript ELSE Succeeds],
   members |-> [Members EXCEPT ![West] = <<1, 2, 3, AgentPageSize + 1>>],
   detailScript |-> [i \in 1..(AgentPageSize + 1) |-> Succeeds],
   detail |-> [i \in 1..(AgentPageSize + 1) |-> TRUE]]

\* (available of agents 1..4 in the agents page, do the detail lookups succeed)
Populations ==
  {<<a, bc[1], bc[2], "true">> : a \in {"true", "false"},
                                 bc \in {<<"true", "true">>, <<"undefined", "true">>,
                                         <<"undefined", "false">>}}

Worlds ==
  {MkWorld(Succeeds, Succeeds, avail, avail[3] = "true") : avail \in Populations}
  \cup {MkWorld(<<500, 500, 500>>, Succeeds, <<"true", "true", "true", "true">>, TRUE),
        MkWorld(Succeeds, <<429, 429, 429>>, <<"true", "true", "true", "true">>, TRUE)}

\* Rotation states an earlier run can have left in the store.
StoredIndices ==
  {[present |-> FALSE, indices |-> EmptyIndices],
   [present |-> TRUE, indices |-> [EmptyIndices EXCEPT ![West] = 1, ![Triage] = 1]],
   [present |-> TRUE, indices |-> [EmptyIndices EXCEPT ![West] = 2]]}

\* --------------------------------------------------------- specification
\* Spec: one operation (a scheduled run or an admin call), started with any
\* rotation state an earlier run can have stored.
Init ==
  /\ pc = "idle"
  /\ mode = "none"
  /\ runs = 0
  /\ now = At(0, 0, 0, EST)
  /\ allTickets = <<>>
  /\ supportedTickets = <<>>
  /\ revPos = 0
  /\ revertedCount = 0
  /\ unassignedTickets = <<>>
  /\ allAgents = <<>>
  /\ pos = 0
  /\ counts = ZeroCounts
  /\ agentIndexByGroup = EmptyIndices
  /\ dbIndices \in StoredIndices
  /\ attemptsDb = <<>>
  /\ activityDb = <<>>
  /\ reversionsDb = <<>>
  /\ inMemoryLogs = <<>>
  /\ calls = <<>>
  /\ steps = <<>>
  /\ lastRun = [valid |-> FALSE, indices |-> EmptyIndices, agents |-> <<>>]
  /\ dbDown = {}
  /\ iparams = [service_status |-> TRUE]
  /\ arg = <<>>
  /\ result = <<>>

Next ==
  \/ onScheduledEventHandler(1, Operations, RunTimes, PagesOf(TicketKinds, MaxTickets),
                             RunsScripts)
  \/ testWeekendReversion(1, TestTimes, PagesOf(TicketKinds, MaxTickets), RunsScripts)
  \/ checkSpecificTicket(1, Responses)
  \/ WeekendPhase
  \/ RevertStep(Responses)
  \/ AssignmentGate(ServiceStatuses, Worlds)
  \/ AssignStep(RunsScripts, TagEnvs)
  \/ FinishRun

Spec == Init /\ [][Next]_vars

\* SpecRR: one scheduled run inside the assignment window over a page of
\* unassigned OPEN/TRIAGE tickets of monitored groups, for every agent
\* population and every stored rotation state.
AssignableKinds ==
  {k \in TicketKinds : k.responder_id = 0 /\ k.group_id \in {West, Triage}
                         /\ k.status # FOLLOW_UP_REQUIRED}

RRStoredIndices ==
  StoredIndices
  \cup {[present |-> TRUE, indices |-> [EmptyIndices EXCEPT ![West] = w, ![Triage] = t]] :
          w \in {0, 3}, t \in {undefined, 2}}

RRWorlds == {MkWorld(Succeeds, Succeeds, avail, avail[3] = "true") : avail \in Populations}

InitRR ==
  /\ pc = "idle"
  /\ mode = "none"
  /\ runs = 0
  /\ now = At(0, 0, 0, EST)
  /\ allTickets = <<>>
  /\ supportedTickets = <<>>
  /\ revPos = 0
  /\ revertedCount = 0
  /\ unassignedTickets = <<>>
  /\ allAgents = <<>>
  /\ pos = 0
  /\ counts = ZeroCounts
  /\ agentIndexByGroup = EmptyIndices
  /\ dbIndices \in RRStoredIndices
  /\ attemptsDb = <<>>
  /\ activityDb = <<>>
  /\ reversionsDb = <<>>
  /\ inMemoryLogs = <<>>
  /\ calls = <<>>
  /\ steps = <<>>
  /\ lastRun = [valid |-> FALSE, indices |-> EmptyIndices, agents |-> <<>>]
  /\ dbDown = {}
  /\ iparams = [service_status |-> TRUE]
  /\ arg = <<>>
  /\ result = <<>>

NextRR ==
  \/ onScheduledEventHandler(1, {"combined_operations"}, {At(1, 2, 1, EST), At(2, 4, 0, EDT)},
                             PagesOf(AssignableKinds, MaxQueue), {Succeeds})
  \/ WeekendPhase
  \/ AssignmentGate({"true"}, RRWorlds)
  \/ AssignStep(RunsScripts, TagEnvs)
  \/ FinishRun

SpecRR == InitRR /\ [][NextRR]_vars

\* SpecRuns: MaxRuns consecutive scheduled runs after installation, with process
\* restarts in between; every ticket fetched is unassigned and OPEN or TRIAGE.
RunsTimes == {At(2, 3, 0, EDT)}

RunsPages == {p \in PagesOf(AssignableKinds, 2) : p # <<>> /\ p[1].group_id = West}

RunsWorlds ==
  {MkWorld(Succeeds, Succeeds, avail, TRUE) :
     avail \in {<<"true", "true", "true", "true">>, <<"false", "true", "true", "true">>,
                <<"true", "false", "false", "true">>}}

InitRuns ==
  /\ InitRR
  /\ dbIndices = [present |-> FALSE, indices |-> EmptyIndices]

NextRuns ==
  \/ onScheduledEventHandler(MaxRuns, {"combined_operations"}, RunsTimes, RunsPages,
                             {Succeeds})
  \/ WeekendPhase
  \/ AssignmentGate({"true"}, RunsWorlds)
  \/ AssignStep(RunsScripts, {CHOOSE e \in TagEnvs : e.putScript = Succeeds})
  \/ FinishRun
  \/ ProcessRestart

SpecRuns == InitRuns /\ [][NextRuns]_vars

\* SpecFaults: one scheduled run in which anything can fail: each remote call,
\* and, from any point of the run on, the reads or the writes of the
\* key-value store.
StoreOutage ==
  /\ pc \in {"fetched", "revert", "gate", "assign"}
  /\ \E down \in SUBSET {"get", "set"} : down # dbDown /\ dbDown' = down
  /\ UNCHANGED <<pc, mode, runs, now, allTickets, loopVars, agentIndexByGroup, stores,
                 inMemoryLogs, calls, steps, lastRun, pureVars, iparams>>

FaultTimes == {At(1, 2, 1, EST), At(2, 3, 0, EDT)}

FaultKinds ==
  {k \in TicketKinds : k.responder_id = 0 /\ k.group_id \in {West, ""}}

FaultWorlds ==
  {MkWorld(Succeeds, Succeeds, <<"true", "true", "true", "true">>, TRUE),
   MkWorld(<<500, 500, 500>>, Succeeds, <<"true", "true", "true", "true">>, TRUE),
   MkWorld(Succeeds, <<429, 429, 429>>, <<"true", "true", "true", "true">>, TRUE),
   MkPagedWorld(Succeeds, Succeeds),
   MkPagedWorld(<<500, 500, 500>>, Succeeds)}

NextFaults ==
  \/ onScheduledEventHandler(1, {"combined_operations"}, FaultTimes,
                             PagesOf(FaultKinds, MaxTickets), RunsScripts)
  \/ WeekendPhase
  \/ RevertStep({200, 500})
  \/ AssignmentGate({"true"}, FaultWorlds)
  \/ AssignStep(RunsScripts, TagEnvs)
  \/ FinishRun
  \/ StoreOutage

SpecFaults == Init /\ [][NextFaults]_vars

\* SpecStaff: one scheduled run over agent populations in which an agent can
\* be occasional or deactivated as well as unavailable.  kind[i] is what the
\* agents page says of agent i.
MkStaffWorld(avail, kind) ==
  LET world == MkWorld(Succeeds, Succeeds, avail, TRUE)
  IN [world EXCEPT !.pages[1].agents =
        [i \in DOMAIN @ |-> [@[i] EXCEPT !.occasional = (kind[i] = "occasional"),
                                         !.deactivated = (kind[i] = "deactivated")]]]

StaffAvailability ==
  {<<"true", "true", "true", "true">>, <<"true", "false", "true", "true">>,
   <<"false", "false", "false", "true">>}

StaffKinds ==
  {<<"regular", "regular", "regular", "regular">>,
   <<"regular", "occasional", "regular", "regular">>,
   <<"deactivated", "regular", "occasional", "regular">>,
   <<"occasional", "deactivated", "occasional", "regular">>}

StaffWorlds == {MkStaffWorld(avail, kind) : avail \in StaffAvailability, kind \in StaffKinds}

NextStaff ==
  \/ onScheduledEventHandler(1, {"combined_operations"}, FaultTimes,
                             PagesOf(FaultKinds, MaxTickets), {Succeeds})
  \/ WeekendPhase
  \/ RevertStep({200})
  \/ AssignmentGate({"true"}, StaffWorlds)
  \/ AssignStep(RunsScripts, TagEnvs)
  \/ FinishRun

SpecStaff == Init /\ [][NextStaff]_vars

\* SpecTags: one scheduled run in which the tagging that follows an
\* assignment meets every answer: the tag is added, it is there already, the
\* ticket cannot be fetched, the tags cannot be written.
NextTags ==
  \/ onScheduledEventHandler(1, {"combined_operations"}, FaultTimes,
                             PagesOf(FaultKinds, MaxTickets), {Succeeds})
  \/ WeekendPhase
  \/ RevertStep({200})
  \/ AssignmentGate({"true"},
                    {MkWorld(Succeeds, Succeeds, <<"true", "true", "true", "true">>, TRUE)})
  \/ AssignStep(RunsScripts,
                TagEnvs \cup
                {[getScript |-> Succeeds, alreadyTagged |-> TRUE, putScript |-> Succeeds],
                 [getScript |-> <<500, 500, 500>>, alreadyTagged |-> FALSE,
                  putScript |-> Succeeds]})
  \/ FinishRun

SpecTags == Init /\ [][NextTags]_vars

\* SpecSkips: one scheduled run on a Tuesday at 03:00 over pages that mix
\* assignable tickets of West with tickets the loop skips for each of its
\* three reasons (Triage has no available member in the second population).
NextSkips ==
  \/ onScheduledEventHandler(1, {"combined_operations"}, {At(2, 3, 0, EDT)},
        PagesOf({k \in TicketKinds : k.responder_id = 0 /\ k.status # FOLLOW_UP_REQUIRED},
                MaxTickets + 1),
        {Succeeds})
  \/ WeekendPhase
  \/ AssignmentGate({"true"},
        {MkWorld(Succeeds, Succeeds, <<"true", "true", "true", "true">>, TRUE),
         MkWorld(Succeeds, Succeeds, <<"true", "false", "false", "true">>, TRUE)})
  \/ AssignStep(RunsScripts, {CHOOSE e \in TagEnvs : e.putScript = Succeeds})
  \/ FinishRun

SpecSkips == Init /\ [][NextSkips]_vars

\* SpecService: a scheduled run of an installation whose administrator turns
\* the service on and off on the configuration page while no run executes.
\* The page's save button: iparams.set({..., service_status: checked}).
SaveConfiguration ==
  /\ pc = "idle"
  /\ \E checked \in BOOLEAN :
        /\ checked # iparams.service_status
        /\ iparams' = [iparams EXCEPT !.service_status = checked]
  /\ UNCHANGED <<pc, mode, runs, now, allTickets, loopVars, agentIndexByGroup, stores,
                 inMemoryLogs, calls, steps, lastRun, pureVars, dbDown>>

NextService ==
  \/ onScheduledEventHandler(1, {"combined_operations"}, FaultTimes,
                             PagesOf(FaultKinds, MaxTickets), {Succeeds})
  \/ WeekendPhase
  \/ RevertStep({200})
  \/ AssignmentGate({appConfigStatus(iparams)},
                    {MkWorld(Succeeds, Succeeds, <<"true", "true", "true", "true">>, TRUE)})
  \/ AssignStep(RunsScripts, TagEnvs)
  \/ FinishRun
  \/ SaveConfiguration

SpecService == Init /\ [][NextService]_vars

\* ------------------------------------------- functions called on their own
\* The program as installed, with no operation running.
Installed ==
  /\ pc = "idle"
  /\ mode = "none"
  /\ runs = 0
  /\ now = At(0, 0, 0, EST)
  /\ allTickets = <<>>
  /\ supportedTickets = <<>>
  /\ revPos = 0
  /\ revertedCount = 0
  /\ unassignedTickets = <<>>
  /\ allAgents = <<>>
  /\ pos = 0
  /\ counts = ZeroCounts
  /\ agentIndexByGroup = EmptyIndices
  /\ dbIndices = [present |-> FALSE, indices |-> EmptyIndices]
  /\ attemptsDb = <<>>
  /\ activityDb = <<>>
  /\ reversionsDb = <<>>
  /\ inMemoryLogs = <<>>
  /\ calls = <<>>
  /\ steps = <<>>
  /\ lastRun = [valid |-> FALSE, indices |-> EmptyIndices, agents |-> <<>>]
  /\ dbDown = {}
  /\ iparams = [service_status |-> TRUE]

NotRun == [done |-> FALSE]

\* SpecTime: the three predicates of the time policy on every minute of the
\* week, in winter and in summer.
Clock ==
  {[utc |-> m + offset, offset |-> offset] :
     m \in 0..(7 * MinutesPerDay * MaxWeeks - 1), offset \in {EST, EDT}}

Call_isWeekendTime ==
  /\ result.done = FALSE
  /\ result' = [done |-> TRUE, fn |-> "isWeekendTime", value |-> isWeekendTime(arg)]
  /\ UNCHANGED <<arg, programVars>>

Call_isWithinAssignmentWindow ==
  /\ result.done = FALSE
  /\ result' = [done |-> TRUE, fn |-> "isWithinAssignmentWindow",
                value |-> isWithinAssignmentWindow(arg)]
  /\ UNCHANGED <<arg, programVars>>

Call_isWeekdayTime ==
  /\ result.done = FALSE
  /\ result' = [done |-> TRUE, fn |-> "isWeekdayTime", value |-> isWeekdayTime(arg)]
  /\ UNCHANGED <<arg, programVars>>

InitTime ==
  /\ Installed
  /\ arg \in Clock
  /\ result = NotRun

NextTime ==
  \/ Call_isWeekendTime
  \/ Call_isWithinAssignmentWindow
  \/ Call_isWeekdayTime

SpecTime == InitTime /\ [][NextTime]_vars

\* SpecFetch: getUnassignedTickets on its own, page by page; the remote system
\* answers each page request with any script and a page of any length.
FetchClock ==
  {At(day, hm[1], hm[2], offset) :
     day \in 0..6, hm \in {<<h, 0>> : h \in 0..23} \cup {<<23, 59>>},
     offset \in {EST, EDT}}

PageLengths == {0, 1, PageSize - 1, PageSize}

\* The tickets the remote system holds for the filter, newest first: the
\* ticket at position id has that id and one of the seven kinds in turn.
KindOrder ==
  <<[status |-> OPEN, responder_id |-> 0, group_id |-> West],
    [status |-> OPEN, responder_id |-> 7, group_id |-> West],
    [status |-> FOLLOW_UP_REQUIRED, responder_id |-> 0, group_id |-> West],
    [status |-> TRIAGE, responder_id |-> 0, group_id |-> Triage],
    [status |-> 4, responder_id |-> 7, group_id |-> OtherGroup],
    [status |-> 5, responder_id |-> 0, group_id |-> ""],
    [status |-> FOLLOW_UP_REQUIRED, responder_id |-> 7, group_id |-> OtherGroup]>>

RemoteTicket(id) ==
  LET kind == KindOrder[(id % Len(KindOrder)) + 1]
  IN [id |-> id, status |-> kind.status, responder_id |-> kind.responder_id,
      group_id |-> kind.group_id]

\* Line 686: the body of the answer to the request for page number page, when
\* the remote system has length tickets left for it.
RemotePage(page, length) ==
  [i \in 1..length |-> RemoteTicket((page - 1) * PageSize + i)]

\* Faulty variant of returnedTickets: the filtered list is what is returned.
returnedTickets_filtered(allFetched) == SelectSeq(allFetched, isEligibleTicket)

\* Lines 741-765: the filtered list is computed and counted, and allTickets
\* is what both return statements hand back.
returnedTickets(allFetched) == allFetched

\* Lines 656-673: read the clock, compute the filter, start at page 1.
FetchStart ==
  /\ result.done = FALSE
  /\ result.started = FALSE
  /\ result' = [result EXCEPT !.started = TRUE,
                              !.updated_since = updatedSince(arg),
                              !.page = 1,
                              !.hasMore = TRUE]
  /\ UNCHANGED <<arg, programVars>>

\* Faulty variant of FetchPage: when a page after the first fails, the
\* tickets of the earlier pages are returned.
FetchPage_keepsPages(Scripts, Lengths, withBody) ==
  /\ result.done = FALSE
  /\ result.started
  /\ result.hasMore /\ result.page <= maxPages
  /\ \E script \in Scripts, length \in Lengths :
       LET ticketsResponse == makeAPICallWithRetry(script)
           pageTickets == IF withBody THEN RemotePage(result.page, length) ELSE <<>>
           request == [page |-> result.page, updated_since |-> result.updated_since,
                       length |-> IF ticketsResponse.ok THEN length ELSE undefined]
       IN result' =
            IF ~ticketsResponse.ok
            THEN [result EXCEPT !.requests = Append(@, request),
                                !.done = TRUE,
                                !.returned = IF result.total = 0 THEN "error" ELSE "tickets",
                                !.value = result.tickets]
            ELSE IF length > 0
            THEN [result EXCEPT !.requests = Append(@, request),
                                !.tickets = @ \o pageTickets,
                                !.total = @ + length,
                                !.hasMore = ~isLastPage(length),
                                !.page = IF isLastPage(length) THEN @ ELSE @ + 1]
            ELSE [result EXCEPT !.requests = Append(@, request), !.hasMore = FALSE]
  /\ UNCHANGED <<arg, programVars>>

\* Lines 675-719: one iteration of the pagination loop; lines 766-769: a
\* page request that fails for good leaves the function by its exception.
\* total is allTickets.length; where only the number of tickets of a page
\* matters (withBody is FALSE) the body of the answer is left out.
FetchPage(Scripts, Lengths, withBody) ==
  /\ result.done = FALSE
  /\ result.started
  /\ result.hasMore /\ result.page <= maxPages
  /\ \E script \in Scripts, length \in Lengths :
       LET ticketsResponse == makeAPICallWithRetry(script)
           pageTickets == IF withBody THEN RemotePage(result.page, length) ELSE <<>>
           request == [page |-> result.page, updated_since |-> result.updated_since,
                       length |-> IF ticketsResponse.ok THEN length ELSE undefined]
       IN result' =
            IF ~ticketsResponse.ok
            THEN [result EXCEPT !.requests = Append(@, request),
                                !.done = TRUE, !.returned = "error"]
            ELSE IF length > 0
            THEN [result EXCEPT !.requests = Append(@, request),
                                !.tickets = @ \o pageTickets,
                                !.total = @ + length,
                                !.hasMore = ~isLastPage(length),
                                !.page = IF isLastPage(length) THEN @ ELSE @ + 1]
            ELSE [result EXCEPT !.requests = Append(@, request), !.hasMore = FALSE]
  /\ UNCHANGED <<arg, programVars>>

\* Lines 722-764: the loop is over; null when nothing was fetched.
FetchReturn ==
  /\ result.done = FALSE
  /\ result.started
  /\ ~(result.hasMore /\ result.page <= maxPages)
  /\ result' = [result EXCEPT !.done = TRUE,
                              !.returned = IF result.total = 0 THEN "null" ELSE "tickets",
                              !.value = IF result.total = 0 THEN <<>>
                                        ELSE returnedTickets(result.tickets)]
  /\ UNCHANGED <<arg, programVars>>

InitFetch ==
  /\ Installed
  /\ arg \in FetchClock
  /\ result = [done |-> FALSE, started |-> FALSE, updated_since |-> 0, page |-> 0,
               hasMore |-> FALSE, total |-> 0, requests |-> <<>>, tickets |-> <<>>,
               returned |-> "none", value |-> <<>>]

NextFetch ==
  \/ FetchStart
  \/ FetchPage(RunScripts, PageLengths, FALSE)
  \/ FetchReturn

SpecFetch == InitFetch /\ [][NextFetch]_vars

\* The loop is sequential code: it takes its next step.
SpecFetchFair == SpecFetch /\ WF_vars(NextFetch)

\* SpecPages: the same fetch with the tickets themselves, on a Monday and on
\* a Tuesday.
PagesClock == {At(1, 2, 1, EST), At(2, 3, 0, EDT)}

InitPages ==
  /\ Installed
  /\ arg \in PagesClock
  /\ result = [done |-> FALSE, started |-> FALSE, updated_since |-> 0, page |-> 0,
               hasMore |-> FALSE, total |-> 0, requests |-> <<>>, tickets |-> <<>>,
               returned |-> "none", value |-> <<>>]

NextPages ==
  \/ FetchStart
  \/ FetchPage(RunScripts, PageLengths, TRUE)
  \/ FetchReturn

SpecPages == InitPages /\ [][NextPages]_vars

\* SpecPagedRun: the fetch of SpecPages followed by the scheduled run that
\* called it, against a remote system that has a first page of 1 or 100
\* tickets and at most one more ticket after it; every page request can fail.
PagedLengths == IF result.page = 1 THEN {1, PageSize} ELSE {0, 1}

\* A page request in the history of calls.
pageCall(request) ==
  [op |-> "getUnassignedTickets", ticket |-> NoTicket,
   value |-> IF request.length = undefined THEN 0 ELSE request.length,
   ok |-> request.length # undefined]

\* Lines 169-180 and 245-249: the scheduled handler, from the point where
\* getUnassignedTickets has returned or thrown.
onScheduledEventHandler_paged ==
  /\ pc = "idle"
  /\ runs < 1
  /\ result.done
  /\ UNCHANGED <<pureVars, envVars>>
  /\ startRun("combined_operations", arg,
              [threw |-> result.returned = "error",
               tickets |-> result.value,
               requests |-> [i \in DOMAIN result.requests |-> pageCall(result.requests[i])]])

NextPagedRun ==
  \/ FetchStart
  \/ FetchPage(RunScripts, PagedLengths, TRUE)
  \/ FetchReturn
  \/ onScheduledEventHandler_paged
  \/ WeekendPhase
  \/ RevertStep({200})
  \/ AssignmentGate({"true"},
                    {MkWorld(Succeeds, Succeeds, <<"true", "true", "true", "true">>, TRUE)})
  \/ AssignStep({Succeeds}, {CHOOSE e \in TagEnvs : e.putScript = Succeeds})
  \/ FinishRun

SpecPagedRun == InitPages /\ [][NextPagedRun]_vars

\* SpecRetry: makeAPICallWithRetry on its own, for every maxRetries from 1 to
\* MaxAttempts and every way the remote system can answer the attempts.
Statuses == {200, 399, 400, 429, 500, 0}

RetryAfterHeaders == {undefined, 0, 7}

RetryInputs ==
  UNION {[script : [1..n -> Statuses], headers : [1..n -> RetryAfterHeaders],
          maxRetries : {n}] : n \in 1..MaxAttempts}

Call_makeAPICallWithRetry ==
  /\ result.done = FALSE
  /\ result' = [done |-> TRUE, fn |-> "makeAPICallWithRetry",
                value |-> retryFrom(arg.script, arg.headers, 1, arg.maxRetries, <<>>)]
  /\ UNCHANGED <<arg, programVars>>

InitRetry ==
  /\ Installed
  /\ arg \in RetryInputs
  /\ result = NotRun

NextRetry == Call_makeAPICallWithRetry

SpecRetry == InitRetry /\ [][NextRetry]_vars

\* SpecDirectory: getActiveAgents on its own, for every way the agents page,
\* the last membership list and the detail lookups can be answered.
DirectoryWorlds ==
  {MkWorld(pageScript, groupScript, avail, detailOk) :
     pageScript \in RunScripts, groupScript \in RunScripts, avail \in Populations,
     detailOk \in BOOLEAN}
  \cup {MkPagedWorld(secondScript, groupScript) :
          secondScript \in RunScripts, groupScript \in RunScripts}

Call_getActiveAgents ==
  /\ result.done = FALSE
  /\ result' = [done |-> TRUE, fn |-> "getActiveAgents", value |-> getActiveAgents(arg)]
  /\ UNCHANGED <<arg, programVars>>

InitDirectory ==
  /\ Installed
  /\ arg \in DirectoryWorlds
  /\ result = NotRun

NextDirectory == Call_getActiveAgents

SpecDirectory == InitDirectory /\ [][NextDirectory]_vars

\* SpecPurge: purgeOldAssignmentAttempts on its own, the clock in seconds, over
\* stores whose entries are of any age around the retention window.
SecondsPerDay == 60 * MinutesPerDay

\* The instant of the purge, a year of seconds after the origin of the clock.
PurgeNow == 365 * SecondsPerDay

\* Ages, in seconds, of a stored attempt at the time of the purge.
AttemptAges ==
  {0, 3600, 31 * SecondsPerDay - 1, 31 * SecondsPerDay, 31 * SecondsPerDay + 1,
   90 * SecondsPerDay}

StoredAttempts(ages) ==
  [i \in DOMAIN ages |->
     [ticket_id |-> i, agent_name |-> "Unknown", group_id |-> West,
      attempted_at |-> PurgeNow - ages[i], result |-> "Failed",
      error_message |-> "Unknown error", tag_added |-> ""]]

PurgeInputs ==
  UNION {{[now |-> PurgeNow, attempts |-> StoredAttempts(ages)] :
            ages \in [1..n -> AttemptAges]} : n \in 0..MaxStored}

Call_purgeOldAssignmentAttempts ==
  /\ result.done = FALSE
  /\ attemptsDb' = purgeStore(attemptsDb,
        purgeOldAssignmentAttempts(dbGet(attemptsDb, <<>>), arg.now, SecondsPerDay))
  /\ result' = [done |-> TRUE, fn |-> "purgeOldAssignmentAttempts"]
  /\ UNCHANGED <<arg, pc, mode, runs, now, allTickets, loopVars, agentIndexByGroup,
                 dbIndices, activityDb, reversionsDb, inMemoryLogs, calls, steps, lastRun, envVars>>

InitPurge ==
  /\ pc = "idle"
  /\ mode = "none"
  /\ runs = 0
  /\ now = At(0, 0, 0, EST)
  /\ allTickets = <<>>
  /\ supportedTickets = <<>>
  /\ revPos = 0
  /\ revertedCount = 0
  /\ unassignedTickets = <<>>
  /\ allAgents = <<>>
  /\ pos = 0
  /\ counts = ZeroCounts
  /\ agentIndexByGroup = EmptyIndices
  /\ dbIndices = [present |-> FALSE, indices |-> EmptyIndices]
  /\ arg \in PurgeInputs
  /\ attemptsDb = arg.attempts
  /\ activityDb = <<>>
  /\ reversionsDb = <<>>
  /\ inMemoryLogs = <<>>
  /\ calls = <<>>
  /\ steps = <<>>
  /\ lastRun = [valid |-> FALSE, indices |-> EmptyIndices, agents |-> <<>>]
  /\ dbDown = {}
  /\ iparams = [service_status |-> TRUE]
  /\ result = NotRun

NextPurge == Call_purgeOldAssignmentAttempts

SpecPurge == InitPurge /\ [][NextPurge]_vars

\* SpecAppend: the three append operations of the audit stores on their own,
\* on a store that is empty, nearly empty, nearly full or full.
\* MAX_ENTRIES of lines 1085 and 1152, and of line 1319.
ActivityCap == 10000
AttemptsCap == 10000
ReversionsCap == 5000

CapOf(store) ==
  CASE store = "activity" -> ActivityCap
    [] store = "attempts" -> AttemptsCap
    [] store = "reversions" -> ReversionsCap

AppendInputs ==
  UNION {{[store |-> store, size |-> size, now |-> At(2, 3, 0, EDT).utc] :
            size \in {0, 1, CapOf(store) - 2, CapOf(store) - 1, CapOf(store)}} :
         store \in {"activity", "attempts", "reversions"}}

\* A store of size entries written by earlier runs; the i-th is about ticket i.
StoredActivity(size) ==
  [i \in 1..size |->
     [ticket_id |-> i, assigned_to |-> "Alice", group_name |-> "West Region",
      activity_type |-> "assignment", overnight_tagged |-> FALSE, created_at |-> 0]]

StoredFailures(size) ==
  [i \in 1..size |->
     [ticket_id |-> i, agent_name |-> "Unknown", group_id |-> West, attempted_at |-> 0,
      result |-> "Failed", error_message |-> "Unknown error", tag_added |-> ""]]

StoredReversions(size) ==
  [i \in 1..size |->
     [ticket_id |-> i, agent_name |-> "Unassigned",
      previous_status |-> "Waiting on Customer",
      reverted_to_status |-> "Waiting on Customer", reverted_at |-> 0]]

\* The ticket the next append is about: none of the stored ones.
NewTicketId == 20000 + result.appended

Call_addActivityEntry ==
  /\ arg.store = "activity"
  /\ result.appended < MaxAppends
  /\ \E activity_type \in {"assignment", "status_reversion"}, overnight_tagged \in BOOLEAN :
       activityDb' = dbSet(activityDb,
                           addActivityEntry(dbGet(activityDb, <<>>), NewTicketId, "Bob",
                                            "Triage", activity_type, overnight_tagged,
                                            arg.now))
  /\ result' = [done |-> TRUE, appended |-> result.appended + 1, ticket_id |-> NewTicketId,
                before |-> activityDb]
  /\ UNCHANGED <<arg, pc, mode, runs, now, allTickets, loopVars, agentIndexByGroup,
                 dbIndices, attemptsDb, reversionsDb, inMemoryLogs, calls, steps, lastRun, envVars>>

Call_addAssignmentAttemptEntry ==
  /\ arg.store = "attempts"
  /\ result.appended < MaxAppends
  /\ \E outcome \in {"Success", "Failed"}, tag_added \in {"", "overnight"} :
       attemptsDb' = dbSet(attemptsDb,
                           addAssignmentAttemptEntry(dbGet(attemptsDb, <<>>), NewTicketId,
                                                     "Bob", Triage, outcome, "", tag_added,
                                                     arg.now))
  /\ result' = [done |-> TRUE, appended |-> result.appended + 1, ticket_id |-> NewTicketId,
                before |-> attemptsDb]
  /\ UNCHANGED <<arg, pc, mode, runs, now, allTickets, loopVars, agentIndexByGroup,
                 dbIndices, activityDb, reversionsDb, inMemoryLogs, calls, steps, lastRun, envVars>>

Call_addWeekendReversionEntry ==
  /\ arg.store = "reversions"
  /\ result.appended < MaxAppends
  /\ \E agent_name \in {"Agent ID", "Unassigned"},
        previous_status \in {"Waiting on Customer", "Pending"} :
       reversionsDb' = dbSet(reversionsDb,
                             addWeekendReversionEntry(dbGet(reversionsDb, <<>>), NewTicketId,
                                                      agent_name, previous_status, arg.now))
  /\ result' = [done |-> TRUE, appended |-> result.appended + 1, ticket_id |-> NewTicketId,
                before |-> reversionsDb]
  /\ UNCHANGED <<arg, pc, mode, runs, now, allTickets, loopVars, agentIndexByGroup,
                 dbIndices, attemptsDb, activityDb, inMemoryLogs, calls, steps, lastRun, envVars>>

InitAppend ==
  /\ pc = "idle"
  /\ mode = "none"
  /\ runs = 0
  /\ now = At(0, 0, 0, EST)
  /\ allTickets = <<>>
  /\ supportedTickets = <<>>
  /\ revPos = 0
  /\ revertedCount = 0
  /\ unassignedTickets = <<>>
  /\ allAgents = <<>>
  /\ pos = 0
  /\ counts = ZeroCounts
  /\ agentIndexByGroup = EmptyIndices
  /\ dbIndices = [present |-> FALSE, indices |-> EmptyIndices]
  /\ arg \in AppendInputs
  /\ activityDb = IF arg.store = "activity" THEN StoredActivity(arg.size) ELSE <<>>
  /\ attemptsDb = IF arg.store = "attempts" THEN StoredFailures(arg.size) ELSE <<>>
  /\ reversionsDb = IF arg.store = "reversions" THEN StoredReversions(arg.size) ELSE <<>>
  /\ inMemoryLogs = <<>>
  /\ calls = <<>>
  /\ steps = <<>>
  /\ lastRun = [valid |-> FALSE, indices |-> EmptyIndices, agents |-> <<>>]
  /\ dbDown = {}
  /\ iparams = [service_status |-> TRUE]
  /\ result = [done |-> FALSE, appended |-> 0, ticket_id |-> 0, before |-> <<>>]

NextAppend ==
  \/ Call_addActivityEntry
  \/ Call_addAssignmentAttemptEntry
  \/ Call_addWeekendReversionEntry

SpecAppend == InitAppend /\ [][NextAppend]_vars

\* SpecLogs: calls of addLog and of clearLogs that interleave at their awaits.
\* inMemoryLogs names an array, addLog changes the array it was handed in
\* place, and clearLogs binds the name to a new array; result holds the heap:
\*   arrays     the log arrays made so far
\*   bound      the array inMemoryLogs names
\*   add[p]     call p of addLog: where it is, the array it holds, its entry
\*   clear      where the call of clearLogs is
\*   cleared    the entries that were in the log when a clearLogs completed
\*   raced      a clearLogs completed while an addLog held the array
\*   before, after, ticket_id   the array around the last push, and its entry
\* arg is the number of entries the log held at the start.
LogProcs == {1, 2}

StoredLogs(size) ==
  [i \in 1..size |-> [type |-> "info", message |-> "stored", ticket_id |-> i]]

InitLogs ==
  /\ Installed
  /\ arg \in {0, 1, 999, 1000}
  /\ result = [arrays |-> <<StoredLogs(arg)>>, bound |-> 1,
               add |-> [p \in LogProcs |-> [at |-> "idle", logs |-> 0, id |-> 0]],
               clear |-> "idle", issued |-> 0, clears |-> 0, cleared |-> {},
               raced |-> FALSE, before |-> <<>>, after |-> <<>>, ticket_id |-> 0]

\* Lines 80-99: the entry is built and getExistingLogs is called, which
\* suspends at its own await (line 52).
addLog_call(p) ==
  /\ result.add[p].at = "idle"
  /\ result.issued < MaxAppends
  /\ result' = [result EXCEPT !.issued = @ + 1,
                              !.add[p] = [at |-> "getExistingLogs", logs |-> 0,
                                          id |-> 20000 + result.issued + 1]]
  /\ UNCHANGED <<arg, programVars>>

\* Line 53: getExistingLogs returns the array inMemoryLogs names now; the
\* await of line 98 suspends addLog once more.
getExistingLogs_return(p) ==
  /\ result.add[p].at = "getExistingLogs"
  /\ result' = [result EXCEPT !.add[p].at = "resumed", !.add[p].logs = result.bound]
  /\ UNCHANGED <<arg, programVars>>

\* Lines 101-111 and 68: push and splice on the array held, then
\* inMemoryLogs = logs.
addLog_resume(p) ==
  /\ result.add[p].at = "resumed"
  /\ LET logs == result.add[p].logs
         pushed == addLog(result.arrays[logs], "info", "entry", result.add[p].id)
     IN result' = [result EXCEPT !.arrays[logs] = pushed,
                                 !.bound = logs,
                                 !.add[p] = [at |-> "idle", logs |-> 0, id |-> 0],
                                 !.before = result.arrays[logs],
                                 !.after = pushed,
                                 !.ticket_id = result.add[p].id]
  /\ UNCHANGED <<arg, programVars>>

\* Line 368: clearLogs suspends at its first await.
clearLogs_call ==
  /\ result.clear = "idle"
  /\ result.clears < MaxAppends
  /\ result' = [result EXCEPT !.clear = "suspended"]
  /\ UNCHANGED <<arg, programVars>>

\* Lines 373-382: inMemoryLogs = [] and the push of 'Logs cleared by user'.
clearLogs_resume ==
  /\ result.clear = "suspended"
  /\ LET current == result.arrays[result.bound]
     IN result' = [result EXCEPT
          !.arrays = Append(@, <<[type |-> "info", message |-> "Logs cleared by user",
                                  ticket_id |-> 30000 + result.clears + 1]>>),
          !.bound = Len(result.arrays) + 1,
          !.clear = "idle",
          !.clears = @ + 1,
          !.cleared = @ \cup {current[i].ticket_id : i \in DOMAIN current},
          !.raced = @ \/ \E p \in LogProcs : result.add[p].at = "resumed"]
  /\ UNCHANGED <<arg, programVars>>

NextLogs ==
  \/ \E p \in LogProcs : addLog_call(p)
  \/ \E p \in LogProcs : getExistingLogs_return(p)
  \/ \E p \in LogProcs : addLog_resume(p)
  \/ clearLogs_call
  \/ clearLogs_resume

SpecLogs == InitLogs /\ [][NextLogs]_vars

\* SpecStore: the activity store under two callers that interleave at their
\* awaits of $db: the scheduled run, whose loop appends with addActivityEntry
\* (line 1014), and the admin operations of arg: addDemoActivityData (347-364)
\* and testWeekendReversion (1497), which append as well, and
\* clearActivityLog (336-343).  result holds
\*   at[w], entries[w], id[w]   where writer w is, what it read, its entry
\*   completed   the entries whose append completed since the last clear
\*   cleared     the entries that were in the store when it was cleared
\*   overlapped  some operation ran between the read and the write of another
Writers == {"run", "addDemoActivityData", "testWeekendReversion"}

AdminOperations == {"addDemoActivityData", "testWeekendReversion", "clearActivityLog"}

InitStore ==
  /\ Installed
  /\ arg \in SUBSET AdminOperations \ {{}}
  /\ result = [at |-> [w \in Writers |-> "idle"],
               entries |-> [w \in Writers |-> <<>>],
               id |-> [w \in Writers |-> 0],
               issued |-> 0, clears |-> 0, completed |-> {}, cleared |-> {},
               overlapped |-> FALSE]

\* Lines 1133-1134: addActivityEntry reads the store and suspends.
getActivityLogData_return(w) ==
  /\ result.at[w] = "idle"
  /\ w \in arg \cup {"run"}
  /\ result.issued < MaxAppends
  /\ result' = [result EXCEPT !.at[w] = "read",
                              !.entries[w] = dbGet(activityDb, <<>>),
                              !.id[w] = 20000 + result.issued + 1,
                              !.issued = @ + 1,
                              !.overlapped = @ \/ \E v \in Writers : result.at[v] = "read"]
  /\ UNCHANGED <<arg, pc, mode, runs, now, allTickets, loopVars, agentIndexByGroup,
                 dbIndices, attemptsDb, activityDb, reversionsDb, inMemoryLogs, calls,
                 steps, lastRun, envVars>>

\* Lines 1136-1157: the entry is pushed onto what was read, and the whole
\* array is written back.
addActivityEntry_set(w) ==
  /\ result.at[w] = "read"
  /\ activityDb' = dbSet(activityDb,
                         addActivityEntry(result.entries[w], result.id[w], "Bob", "Triage",
                                          "assignment", FALSE, 0))
  /\ result' = [result EXCEPT !.at[w] = "idle",
                              !.entries[w] = <<>>,
                              !.completed = @ \cup {result.id[w]}]
  /\ UNCHANGED <<arg, pc, mode, runs, now, allTickets, loopVars, agentIndexByGroup,
                 dbIndices, attemptsDb, reversionsDb, inMemoryLogs, calls, steps, lastRun,
                 envVars>>

\* Line 338: the store is overwritten with no entries.
clearActivityLog ==
  /\ "clearActivityLog" \in arg
  /\ result.clears < MaxAppends
  /\ activityDb' = dbSet(activityDb, <<>>)
  /\ result' = [result EXCEPT
         !.clears = @ + 1,
         !.completed = {},
         !.cleared = @ \cup {activityDb[i].ticket_id : i \in DOMAIN activityDb},
         !.overlapped = @ \/ \E v \in Writers : result.at[v] = "read"]
  /\ UNCHANGED <<arg, pc, mode, runs, now, allTickets, loopVars, agentIndexByGroup,
                 dbIndices, attemptsDb, reversionsDb, inMemoryLogs, calls, steps, lastRun,
                 envVars>>

NextStore ==
  \/ \E w \in Writers : getActivityLogData_return(w)
  \/ \E w \in Writers : addActivityEntry_set(w)
  \/ clearActivityLog

SpecStore == InitStore /\ [][NextStore]_vars

\* SpecAgentPages: the pagination loop of getActiveAgents (lines 776-809),
\* one request per step, against a remote system that answers with a page of
\* any length or with an error.  arg says whether the remote system answers
\* every request with a full page; result holds the loop's variables page and
\* hasMore, the number of agents collected, the number of requests made, and
\* the length of the last page (-1 for a failed request).
InitAgentPages ==
  /\ Installed
  /\ arg \in {"always full", "any"}
  /\ result = [page |-> 1, hasMore |-> TRUE, allAgents |-> 0, requests |-> 0,
               last |-> 0, returned |-> FALSE]

\* What a request for a page can bring: a number of agents, or -1, an error
\* after the retries.
AgentPageAnswers ==
  IF arg = "always full"
  THEN {AgentPageSize}
  ELSE {-1, 0, AgentPageSize - 1, AgentPageSize, AgentPageSize + 1}

\* Lines 779-808: one pass of the while loop.
getAgentsPage_request ==
  /\ result.hasMore
  /\ result.requests < MaxAgentPages
  /\ \E pageAgents \in AgentPageAnswers :
       result' = [result EXCEPT
          !.requests = @ + 1,
          !.last = pageAgents,
          !.allAgents = IF pageAgents > 0 THEN @ + pageAgents ELSE @,
          !.page = IF pageAgents >= AgentPageSize THEN @ + 1 ELSE @,
          !.hasMore = pageAgents >= AgentPageSize]
  /\ UNCHANGED <<arg, programVars>>

\* Line 811 on: the loop has ended and the groups are fetched.
getActiveAgents_groups ==
  /\ ~result.hasMore
  /\ ~result.returned
  /\ result' = [result EXCEPT !.returned = TRUE]
  /\ UNCHANGED <<arg, programVars>>

NextAgentPages ==
  \/ getAgentsPage_request
  \/ getActiveAgents_groups

SpecAgentPages == InitAgentPages /\ [][NextAgentPages]_vars

\* ------------------------------------------------------------------ claims
\* The six monitored group ids, as the claims name them.
SixMonitoredGroups ==
  {"67000578161", "67000578164", "67000578163", "67000578162", "67000578235", "67000570681"}

\* The handlers of the directory that may take a ticket of group g, in directory order.
Eligible(g) ==
  SelectSeq(allAgents, LAMBDA a : g \in a.group_ids /\ a.available = "true")

\* The iterations of the loop that reached the assignment call, for group g.
StepsOf(g) == SelectSeq(steps, LAMBDA s : s.ticket.group_id = g /\ s.outcome # "skipped")

AssignCallsFor(ticket) ==
  {i \in DOMAIN calls : calls[i].op = "assignTicket" /\ calls[i].ticket = ticket}

FailedAttempts(ticket, reason) ==
  {j \in DOMAIN attemptsDb : /\ attemptsDb[j].ticket_id = ticket.id
                             /\ attemptsDb[j].result = "Failed"
                             /\ attemptsDb[j].error_message = reason}

\* C1 (SpecRR).  Round-robin fairness: in a group with k >= 1 eligible handlers
\* whose index is i in [0,k), k consecutive tickets of the group whose assignment
\* calls all succeed go to eligible[i], eligible[i+1 mod k], ..., one ticket per
\* handler, and the group's index is i again afterwards.
C1_RoundRobinFairness ==
  pc = "assign" =>
    \A g \in SixMonitoredGroups :
      LET eligible == Eligible(g)
          k == Len(eligible)
          sg == StepsOf(g)
      IN \A first \in DOMAIN sg :
           ( /\ k >= 1
             /\ first + k - 1 <= Len(sg)
             /\ sg[first].before \in 0..(k - 1)
             /\ \A j \in 0..(k - 1) : sg[first + j].outcome = "assigned" )
           => LET i == sg[first].before
              IN /\ \A j \in 0..(k - 1) :
                      sg[first + j].agent = eligible[((i + j) % k) + 1].id
                 /\ {sg[first + j].agent : j \in 0..(k - 1)}
                      = {eligible[m].id : m \in 1..k}
                 /\ Cardinality({sg[first + j].agent : j \in 0..(k - 1)}) = k
                 /\ sg[first + k - 1].after = i

\* Three handlers, three tickets of West, the index stored as 2: a full cycle.
C1_Witness ==
  /\ pc = "assign"
  /\ Len(Eligible(West)) = 3
  /\ Len(StepsOf(West)) = 3
  /\ \A j \in 1..3 : StepsOf(West)[j].outcome = "assigned"
  /\ StepsOf(West)[1].before = 2
  /\ agentIndexByGroup[West] = 2

\* C2 (SpecRuns).  The rotation index survives the run boundary: when the last
\* assignment loop ended with group g at index i and the eligible handlers of g
\* are the same in this run, the first ticket of g in this run goes to eligible[i].
C2_IndexPersistsAcrossRuns ==
  (pc = "assign" /\ lastRun.valid) =>
    \A g \in SixMonitoredGroups :
      LET eligible == Eligible(g)
          before == SelectSeq(lastRun.agents,
                              LAMBDA a : g \in a.group_ids /\ a.available = "true")
          i == lastRun.indices[g]
          sg == StepsOf(g)
      IN (Len(sg) >= 1 /\ i # undefined /\ before = eligible /\ i < Len(eligible))
         => sg[1].agent = eligible[i + 1].id

\* The second run starts where the first one stopped, at the third handler.
C2_Witness ==
  /\ pc = "assign"
  /\ runs = 2
  /\ lastRun.valid
  /\ lastRun.indices[West] = 2
  /\ Len(Eligible(West)) = 3
  /\ lastRun.agents = allAgents
  /\ Len(StepsOf(West)) >= 1
  /\ StepsOf(West)[1].agent = 3

\* C3 (Spec).  A ticket handed to the engine without a group, or with a group
\* outside the six monitored ones, never gets an assignment call, and once the
\* loop has passed it the attempts store holds a Failed attempt with the reason
\* for its case.
C3_UnmonitoredNeverAssigned ==
  LET bad(t) == t.group_id = "" \/ t.group_id \notin SixMonitoredGroups
      reason(t) == IF t.group_id = "" THEN "Ticket has no group assigned"
                   ELSE "Unsupported group for auto-assignment"
  IN /\ \A i \in DOMAIN unassignedTickets :
          bad(unassignedTickets[i]) => AssignCallsFor(unassignedTickets[i]) = {}
     /\ \A i \in DOMAIN steps :
          bad(steps[i].ticket) =>
            /\ steps[i].outcome = "skipped"
            /\ AssignCallsFor(steps[i].ticket) = {}
            /\ FailedAttempts(steps[i].ticket, reason(steps[i].ticket)) # {}

\* One ticket without a group and one of an unmonitored group have been passed.
C3_Witness ==
  /\ Len(steps) = 2
  /\ \E i, j \in DOMAIN steps : /\ steps[i].ticket.group_id = ""
                                /\ steps[j].ticket.group_id = OtherGroup

\* C4 (Spec).  An assignment call is issued only by a scheduled run and only
\* for a ticket of the fetched snapshot that has no responder and status 2 or 29.
C4_OnlyEligibleAssigned ==
  /\ \A i \in DOMAIN calls :
       calls[i].op = "assignTicket" =>
         /\ mode = "scheduled"
         /\ calls[i].ticket.responder_id = 0
         /\ calls[i].ticket.status \in {2, 29}
         /\ pc = "assign" => \E k \in DOMAIN allTickets : allTickets[k] = calls[i].ticket
  /\ \A k \in DOMAIN allTickets :
       (allTickets[k].responder_id # 0 \/ allTickets[k].status \notin {2, 29})
         => AssignCallsFor(allTickets[k]) = {}

\* The snapshot holds an assignable ticket, which got its call, and one that
\* has a responder already.
C4_Witness ==
  /\ pc = "assign"
  /\ \E i \in DOMAIN calls : calls[i].op = "assignTicket"
  /\ \E k \in DOMAIN allTickets : allTickets[k].responder_id # 0 /\ allTickets[k].status = 2

C6_IndexWithinBounds ==
  \A i \in DOMAIN steps :
    steps[i].outcome # "skipped" =>
      /\ steps[i].n >= 1
      /\ steps[i].index \in 0..(steps[i].n - 1)
      /\ steps[i].agent # 0
      /\ (steps[i].before = undefined \/ steps[i].before >= steps[i].n)
           => steps[i].index = 0
      /\ (steps[i].before # undefined /\ steps[i].before < steps[i].n)
           => steps[i].index = steps[i].before
      /\ pc = "assign" => steps[i].n = Len(Eligible(steps[i].ticket.group_id))

\* The group had three handlers in the first run and has two in the second,
\* which finds the index at 2.
C6_Witness ==
  /\ runs = 2
  /\ lastRun.valid
  /\ \E i \in DOMAIN steps :
       /\ steps[i].outcome # "skipped"
       /\ steps[i].before = 2
       /\ steps[i].n = 2
       /\ steps[i].index = 0

\* C7 (SpecRR).  A failed assignment call leaves a Failed attempt that carries
\* the error's message, and the group's index is advanced all the same, so the
\* next ticket of the group is tried with the next handler.
C7_FailureStillAdvances ==
  pc = "assign" =>
    \A g \in SixMonitoredGroups :
      LET sg == StepsOf(g)
      IN \A j \in DOMAIN sg :
           sg[j].outcome = "error" =>
             /\ sg[j].after = (sg[j].index + 1) % sg[j].n
             /\ sg[j].detail # ""
             /\ FailedAttempts(sg[j].ticket, sg[j].detail) # {}
             /\ \A a \in DOMAIN activityDb : activityDb[a].ticket_id # sg[j].ticket.id
             /\ j < Len(sg) =>
                  /\ sg[j + 1].index = sg[j].after
                  /\ sg[j].n > 1 => sg[j + 1].agent # sg[j].agent
             /\ j = Len(sg) => agentIndexByGroup[g] = sg[j].after

\* A call for a ticket of West failed and the next ticket of West went to
\* the handler after the one the failed call named.
C7_Witness ==
  /\ pc = "assign"
  /\ Len(StepsOf(West)) >= 2
  /\ StepsOf(West)[1].outcome = "error"
  /\ StepsOf(West)[1].n = 3
  /\ StepsOf(West)[2].outcome = "assigned"
  /\ StepsOf(West)[2].agent # StepsOf(West)[1].agent

\* C8 (SpecRR).  A ticket of a group with eligible handlers goes to the handler
\* at the group's index, the index then becomes (index + 1) mod the number of
\* eligible handlers, and each assigned ticket has exactly one Success attempt
\* and one 'assignment' activity entry.  With handlers [A,B,C] and index 1, two
\* tickets go to B and to C and leave the index at 0.
C8_AssignStepsIndex ==
  pc = "assign" =>
    /\ \A i \in DOMAIN steps :
         steps[i].outcome = "assigned" =>
           LET eligible == Eligible(steps[i].ticket.group_id)
               id == steps[i].ticket.id
           IN /\ steps[i].agent = eligible[steps[i].index + 1].id
              /\ steps[i].after = (steps[i].index + 1) % Len(eligible)
              /\ \E c \in AssignCallsFor(steps[i].ticket) : calls[c].value = steps[i].agent
              /\ Cardinality({j \in DOMAIN attemptsDb :
                     attemptsDb[j].ticket_id = id /\ attemptsDb[j].result = "Success"}) = 1
              /\ Cardinality({j \in DOMAIN activityDb :
                     /\ activityDb[j].ticket_id = id
                     /\ activityDb[j].activity_type = "assignment"
                     /\ activityDb[j].assigned_to
                          = eligible[steps[i].index + 1].name}) = 1
    /\ Len(activityDb) = Len(SelectSeq(steps, LAMBDA s : s.outcome = "assigned"))
    /\ Len(SelectSeq(attemptsDb, LAMBDA e : e.result = "Success"))
         = Len(SelectSeq(steps, LAMBDA s : s.outcome = "assigned"))
    /\ LET sg == StepsOf(West)
       IN ( /\ Len(Eligible(West)) = 3
            /\ Len(sg) = 2
            /\ sg[1].before = 1
            /\ sg[1].outcome = "assigned" /\ sg[2].outcome = "assigned" )
          => /\ sg[1].agent = Eligible(West)[2].id
             /\ sg[2].agent = Eligible(West)[3].id
             /\ agentIndexByGroup[West] = 0

\* Handlers [A,B,C], index 1, two tickets: B, then C, index 0, two Success
\* attempts and two 'assignment' entries.
C8_Witness ==
  /\ pc = "assign"
  /\ Len(Eligible(West)) = 3
  /\ Len(steps) = 2
  /\ Len(StepsOf(West)) = 2
  /\ StepsOf(West)[1].before = 1
  /\ StepsOf(West)[1].agent = 2
  /\ StepsOf(West)[2].agent = 3
  /\ agentIndexByGroup[West] = 0
  /\ Len(SelectSeq(attemptsDb, LAMBDA e : e.result = "Success")) = 2
  /\ Len(SelectSeq(activityDb, LAMBDA e : e.activity_type = "assignment")) = 2

\* C9 (Spec).  The loop passes every ticket it was given, in order, and records
\* one attempt per ticket; a failure on one ticket does not stop it, and at the
\* end assigned + skipped + errors is the number of tickets given.
C9_EveryTicketProcessed ==
  /\ pc = "assign" =>
       /\ Len(steps) = pos - 1
       /\ Len(attemptsDb) = Len(steps)
       /\ \A j \in DOMAIN steps :
            /\ steps[j].ticket = unassignedTickets[j]
            /\ attemptsDb[j].ticket_id = unassignedTickets[j].id
       /\ counts.assigned = Len(SelectSeq(steps, LAMBDA s : s.outcome = "assigned"))
       /\ counts.skipped = Len(SelectSeq(steps, LAMBDA s : s.outcome = "skipped"))
       /\ counts.errors = Len(SelectSeq(steps, LAMBDA s : s.outcome = "error"))
       /\ counts.assigned + counts.skipped + counts.errors = Len(steps)
       /\ pos > Len(unassignedTickets) =>
            counts.assigned + counts.skipped + counts.errors = Len(unassignedTickets)
  /\ (steps # <<>> /\ pc # "assign") =>
       /\ pc = "idle"
       /\ Len(attemptsDb) = Len(steps)
       /\ inMemoryLogs[Len(inMemoryLogs)].message = "Run completed"

\* Two tickets were given; the call for the first failed and the second was
\* assigned all the same.
C9_Witness ==
  /\ pc = "assign"
  /\ Len(unassignedTickets) = 2
  /\ pos = 3
  /\ steps[1].outcome = "error"
  /\ steps[2].outcome = "assigned"
  /\ counts = [assigned |-> 1, skipped |-> 0, errors |-> 1]

UpdateCalls == {i \in DOMAIN calls : calls[i].op = "updateTicketStatus"}

\* C10 as originally stated (Spec).  The reversion phase acts only on tickets
\* of status 23 in a monitored group, and only while the current time is in
\* the weekend window.
C10_Original ==
  \A i \in UpdateCalls :
    /\ calls[i].ticket.status = 23
    /\ calls[i].ticket.group_id \in SixMonitoredGroups
    /\ isWeekendTime(now)

\* C10 (Spec), amended.  A status update is only ever issued for a ticket of
\* status 23 in a monitored group; a scheduled run issues one only inside the
\* weekend window, and outside it reverts nothing, whatever the tickets; the
\* operation testWeekendReversion reverts at any time.
C10_Amended ==
  /\ \A i \in UpdateCalls :
       /\ calls[i].ticket.status = 23
       /\ calls[i].ticket.group_id \in SixMonitoredGroups
       /\ mode \in {"scheduled", "test"}
       /\ mode = "scheduled" => isWeekendTime(now)
       /\ pc # "idle" => \E k \in DOMAIN allTickets : allTickets[k] = calls[i].ticket
  /\ (mode = "scheduled" /\ ~isWeekendTime(now)) =>
       /\ UpdateCalls = {}
       /\ reversionsDb = <<>>
       /\ revertedCount = 0
  /\ \A r \in DOMAIN reversionsDb :
       \E i \in UpdateCalls : calls[i].ticket.id = reversionsDb[r].ticket_id

\* testWeekendReversion reverted a ticket on a Wednesday at noon.
C10_Witness ==
  /\ mode = "test"
  /\ ~isWeekendTime(now)
  /\ isWeekdayTime(now)
  /\ \E i \in UpdateCalls : calls[i].ticket.status = 23
  /\ reversionsDb # <<>>

NoteCalls == {i \in DOMAIN calls : calls[i].op = "addTicketNote"}

\* C11 (Spec).  The reversion engine attempts every selected ticket whatever
\* fails on the way; a ticket whose status update fails gets no note call, no
\* WeekendReversion and no ActivityEntry; and the count of the phase is the
\* number of tickets whose status update succeeded, which is the number of
\* WeekendReversion entries and of 'status_reversion' entries it appended.
C11_ReversionIsolation ==
  pc \in {"revert", "gate"} =>
    LET attempted == IF pc = "revert" THEN revPos - 1 ELSE Cardinality(UpdateCalls)
        succeeded == {i \in UpdateCalls : calls[i].ok}
    IN /\ Cardinality(UpdateCalls) = attempted
       /\ pc = "revert" =>
            \A k \in 1..(revPos - 1) :
              \E i \in UpdateCalls : calls[i].ticket = supportedTickets[k]
       /\ \A i \in UpdateCalls \ succeeded :
            /\ \A j \in NoteCalls : calls[j].ticket # calls[i].ticket
            /\ \A r \in DOMAIN reversionsDb :
                 reversionsDb[r].ticket_id # calls[i].ticket.id
            /\ \A a \in DOMAIN activityDb : activityDb[a].ticket_id # calls[i].ticket.id
       /\ revertedCount = Cardinality(succeeded)
       /\ Len(reversionsDb) = Cardinality(succeeded)
       /\ Len(SelectSeq(activityDb, LAMBDA e : e.activity_type = "status_reversion"))
            = Cardinality(succeeded)

\* The New York wall clock of the instant in arg: day of the week (Sunday = 0)
\* and minute of the day.
LocalDay == ((arg.utc - arg.offset) \div 1440) % 7
LocalMinuteOfDay == (arg.utc - arg.offset) % 1440

\* C12 (SpecTime).  isWeekendTime is true exactly on Friday from 18:00, all of
\* Saturday and Sunday, and Monday before 07:00, New York time.
C12_WeekendWindow ==
  (result.done /\ result.fn = "isWeekendTime") =>
    (result.value <=> \/ LocalDay = 5 /\ LocalMinuteOfDay >= 18 * 60
                      \/ LocalDay = 6
                      \/ LocalDay = 0
                      \/ LocalDay = 1 /\ LocalMinuteOfDay < 7 * 60)

\* Monday 07:00 in summer time: the window has just closed.
C12_Witness ==
  /\ result.done
  /\ result.fn = "isWeekendTime"
  /\ LocalDay = 1
  /\ LocalMinuteOfDay = 7 * 60
  /\ arg.offset = EDT
  /\ result.value = FALSE

\* C13 (SpecTime).  isWithinAssignmentWindow is true exactly from 02:01 to
\* 04:00, both included, New York time.
C13_AssignmentWindow ==
  (result.done /\ result.fn = "isWithinAssignmentWindow") =>
    (result.value <=> LocalMinuteOfDay \in (2 * 60 + 1)..(4 * 60))

\* 04:00 sharp is still inside.
C13_Witness ==
  /\ result.done
  /\ result.fn = "isWithinAssignmentWindow"
  /\ LocalMinuteOfDay = 4 * 60
  /\ result.value = TRUE

\* C14 (SpecFetchFair).  The updated_since filter of a fetch lies 61 hours
\* before the current instant when the New York day is Monday and 24 hours
\* before it on every other day, and every page request of the fetch carries
\* that same filter.
C14_LookbackHours ==
  result.started =>
    LET hours == IF LocalDay = 1 THEN 61 ELSE 24
    IN /\ result.updated_since = arg.utc - hours * 60
       /\ \A i \in DOMAIN result.requests :
            result.requests[i].updated_since = arg.utc - hours * 60

\* Monday 23:00 in New York, already Tuesday in UTC: three pages, 61 hours each.
C14_Witness ==
  /\ result.started
  /\ arg = At(1, 23, 0, EST)
  /\ Len(result.requests) = 3
  /\ \A i \in 1..3 : result.requests[i].updated_since = arg.utc - 61 * 60

\* What the requests made so far look like at every point of a fetch.
C20_PagesInOrderAndBounded ==
  LET requests == result.requests
      n == Len(requests)
  IN /\ \A i \in 1..n : requests[i].page = i
     /\ n <= 50
     /\ result.total <= 5000
     /\ \A i \in 1..(n - 1) : requests[i].length = 100
     /\ (result.done /\ result.returned # "error") =>
          /\ n >= 1
          /\ requests[n].length \in 0..99 \/ (n = 50 /\ requests[n].length = 100)
          /\ result.total = 100 * (n - 1) + requests[n].length
     /\ (result.started /\ ~result.done /\ n >= 1 /\ requests[n].length < 100) =>
          ~ENABLED FetchPage(RunScripts, PageLengths, FALSE)

\* C20 (SpecFetchFair).  The ticket pagination always comes to an end: pages
\* are requested in the order 1, 2, ..., no page is requested after a page of
\* fewer than 100 items, at most 50 pages are requested and at most 5000
\* tickets collected.
C20_PaginationTerminates == []C20_PagesInOrderAndBounded /\ <>(result.done)

\* Fifty full pages: the cap ends the fetch with 5000 tickets.
C20_Witness ==
  /\ result.done
  /\ result.returned = "tickets"
  /\ Len(result.requests) = 50
  /\ result.total = 5000

CallsOf(op) == {i \in DOMAIN calls : calls[i].op = op}

\* The New York wall clock of a run: day of the week and minute of the day.
RunDay == ((now.utc - now.offset) \div 1440) % 7
RunMinuteOfDay == (now.utc - now.offset) % 1440

\* C15 (Spec).  A scheduled run issues an assignment call only when its
\* timestamp is between 02:01 and 04:00 on a day from Monday to Friday; a run at
\* any other time issues none and neither loads nor saves the rotation state.
C15_AssignmentOnlyInWindowOnWeekdays ==
  mode = "scheduled" =>
    LET allowed == /\ RunMinuteOfDay \in (2 * 60 + 1)..(4 * 60)
                   /\ RunDay \in 1..5
    IN /\ CallsOf("assignTicket") # {} => allowed
       /\ ~allowed =>
            /\ CallsOf("assignTicket") = {}
            /\ CallsOf("loadAgentIndicesByGroup") = {}
            /\ CallsOf("saveAgentIndicesByGroup") = {}
            /\ steps = <<>>
            /\ agentIndexByGroup = EmptyIndices
            /\ dbIndices \in StoredIndices
            /\ attemptsDb = <<>>

\* A run on Saturday at 03:00, inside the hours of the window, has fetched
\* tickets and stopped at the weekday test.
C15_Witness ==
  /\ mode = "scheduled"
  /\ pc = "idle"
  /\ RunDay = 6
  /\ RunMinuteOfDay = 3 * 60
  /\ CallsOf("getUnassignedTickets") # {}
  /\ inMemoryLogs # <<>>
  /\ inMemoryLogs[Len(inMemoryLogs)].message = "Weekend detected"
  /\ CallsOf("assignTicket") = {}

\* C16 (Spec).  In one scheduled run the tickets are fetched once, before
\* anything else, and both phases work on that result; every status update
\* of the reversion precedes the first assignment call; the rotation state is
\* loaded before the first assignment call and saved once, after the last.
C16_PhaseOrder ==
  mode = "scheduled" =>
    /\ CallsOf("getUnassignedTickets") = {1}
    /\ pc # "idle" =>
         \A i \in CallsOf("updateTicketStatus") \cup CallsOf("assignTicket") :
           \E k \in DOMAIN allTickets : allTickets[k] = calls[i].ticket
    /\ \A u \in CallsOf("updateTicketStatus") \cup CallsOf("addTicketNote") :
         \A a \in CallsOf("assignTicket") \cup CallsOf("loadAgentIndicesByGroup") : u < a
    /\ Cardinality(CallsOf("loadAgentIndicesByGroup")) <= 1
    /\ Cardinality(CallsOf("saveAgentIndicesByGroup")) <= 1
    /\ \A a \in CallsOf("assignTicket") :
         /\ \E l \in CallsOf("loadAgentIndicesByGroup") : l < a
         /\ \A v \in CallsOf("saveAgentIndicesByGroup") : a < v
    /\ \A v \in CallsOf("saveAgentIndicesByGroup") :
         /\ v = Len(calls)
         /\ pc = "idle"
         /\ \E l \in CallsOf("loadAgentIndicesByGroup") : l < v
    /\ pc = "assign" => CallsOf("saveAgentIndicesByGroup") = {}

\* A Monday 02:01 run reverted one ticket, then assigned another, then saved.
C16_Witness ==
  /\ mode = "scheduled"
  /\ \E u \in CallsOf("updateTicketStatus") : calls[u].ok
  /\ \E a \in CallsOf("assignTicket") : calls[a].ok
  /\ calls[Len(calls)].op = "saveAgentIndicesByGroup"

\* The request templates of the external ticketing API.
RemoteOps ==
  {"getUnassignedTickets", "getAgents", "getAgentsPage", "getGroup", "getAgentDetails",
   "assignTicket",
   "updateTicketStatus", "addTicketNote"}

\* C19 (Spec).  Every call to the ticketing API made by the fetcher, the
\* directory builder, the assignment engine and the reversion engine is
\* retried: a call whose first answer is a 429, a server error or a transport
\* failure is not given up before the template has been invoked again.
C19_EveryCallIsRetried ==
  mode \in {"scheduled", "test"} =>
    \A i \in DOMAIN calls :
      ( /\ calls[i].op \in RemoteOps
        /\ calls[i].first = 0 \/ calls[i].first = 429 \/ calls[i].first >= 500 )
      => calls[i].invocations > 1

\* An answer that makes the wrapper try again or give up.
Failing(status) == status = 0 \/ status >= 400

\* C17 (SpecRetry).  makeAPICallWithRetry with maxRetries = n >= 1 invokes the
\* template between 1 and n times and then either returns a response with a
\* status below 400 or raises; every failing answer before the n-th attempt is
\* followed by another attempt, and the error raised on the n-th carries the
\* status of that attempt.
C17_RetryTerminates ==
  result.done =>
    LET r == result.value
        n == arg.maxRetries
    IN /\ r.invocations \in 1..n
       /\ Len(r.waits) = r.invocations - 1
       /\ \A i \in 1..(r.invocations - 1) : Failing(arg.script[i])
       /\ \/ r.returned /\ r.ok /\ r.error = ""
          \/ ~r.returned /\ ~r.ok /\ r.error # ""
       /\ r.returned =>
            /\ r.status = arg.script[r.invocations]
            /\ r.status # 0 /\ r.status < 400
       /\ ~r.returned =>
            /\ r.invocations = n
            /\ Failing(arg.script[n])
            /\ r.status = arg.script[n]
            /\ (arg.script[n] >= 400 /\ arg.script[n] # 429) => r.error = "API returned status"

\* Three attempts answered 500, a rejection and 400: raised on the third.
C17_Witness ==
  /\ result.done
  /\ arg.maxRetries = 3
  /\ arg.script = <<500, 0, 400>>
  /\ ~result.value.returned
  /\ result.value.invocations = 3
  /\ result.value.status = 400

FirstRemoteTickets(n) ==
  [k \in 1..n |->
     LET kind == KindOrder[(k % 7) + 1]
     IN [id |-> k, status |-> kind.status, responder_id |-> kind.responder_id,
         group_id |-> kind.group_id]]

\* C21 (SpecPages).  getUnassignedTickets returns the tickets of every page
\* up to the first page of fewer than 100 (or the 50th), in page order and
\* unfiltered: whoever they are assigned to and whatever their status; it
\* fails when the first page (or any later one) cannot be retrieved, and
\* answers null when the first page is empty.
C21_FetchReturnsAllUnfiltered ==
  result.done =>
    LET requests == result.requests
        n == Len(requests)
    IN /\ n >= 1
       /\ requests[1].length = undefined => result.returned = "error"
       /\ result.returned = "error" <=> requests[n].length = undefined
       /\ result.returned = "null" <=> (n = 1 /\ requests[1].length = 0)
       /\ result.returned = "tickets" =>
            /\ \A i \in 1..(n - 1) : requests[i].length = 100
            /\ requests[n].length < 100 \/ n = 50
            /\ result.value = FirstRemoteTickets(100 * (n - 1) + requests[n].length)
            /\ Len(result.value) >= 2 =>
                 \E k \in DOMAIN result.value :
                   result.value[k].responder_id # 0 \/ result.value[k].status \notin {2, 29}

\* Two full pages and a page of one ticket: 201 tickets, the first of them
\* assigned already, the second in status 23.
C21_Witness ==
  /\ result.done
  /\ result.returned = "tickets"
  /\ Len(result.requests) = 3
  /\ Len(result.value) = 201
  /\ result.value[1].responder_id # 0
  /\ result.value[2].status = 23
  /\ result.value[201].id = 201

\* The type and message of the newest entry of the free-form log.
LastLog == inMemoryLogs[Len(inMemoryLogs)]

\* Nothing of the reversion or assignment phase has happened in this run.
NoPhaseRan ==
  /\ Len(calls) = 1
  /\ CallsOf("updateTicketStatus") = {}
  /\ CallsOf("assignTicket") = {}
  /\ CallsOf("loadAgentIndicesByGroup") = {}
  /\ CallsOf("saveAgentIndicesByGroup") = {}
  /\ steps = <<>>
  /\ revertedCount = 0
  /\ reversionsDb = <<>>
  /\ attemptsDb = <<>>
  /\ activityDb = <<>>
  /\ agentIndexByGroup = EmptyIndices
  /\ dbIndices \in StoredIndices

\* C22 (Spec).  A scheduled run tells an empty fetch from a failed one: after
\* an empty result it ends with an info entry and no error entry; after a
\* failed fetch it ends with an error entry; in both cases nothing is
\* reverted, nothing assigned and the rotation state is not written.
C22_EmptyVersusFailedFetch ==
  (mode = "scheduled" /\ calls # <<>>) =>
    LET fetch == calls[1]
    IN /\ fetch.op = "getUnassignedTickets"
       /\ (fetch.ok /\ fetch.value = 0) =>
            /\ pc = "idle"
            /\ NoPhaseRan
            /\ LastLog.type = "info"
            /\ LastLog.message = "No tickets found to process"
            /\ \A i \in DOMAIN inMemoryLogs : inMemoryLogs[i].type # "error"
       /\ ~fetch.ok =>
            /\ pc = "idle"
            /\ NoPhaseRan
            /\ LastLog.type = "error"
            /\ Len(inMemoryLogs) = 1
       /\ (fetch.ok /\ fetch.value > 0 /\ pc # "idle") => Len(allTickets) = fetch.value

\* The fetch failed after three attempts and the run ended with an error entry.
C22_Witness ==
  /\ mode = "scheduled"
  /\ pc = "idle"
  /\ calls # <<>>
  /\ ~calls[1].ok
  /\ calls[1].invocations = 3
  /\ LastLog.type = "error"

\* The fetch succeeded with no tickets and the run ended with an info entry.
C22_EmptyWitness ==
  /\ mode = "scheduled"
  /\ pc = "idle"
  /\ calls # <<>>
  /\ calls[1].ok
  /\ calls[1].value = 0
  /\ LastLog.message = "No tickets found to process"

\* The requests of a directory build that failed after their retries.
FailedRequests(ops) ==
  {i \in DOMAIN result.value.requests :
     result.value.requests[i].op \in ops /\ ~result.value.requests[i].ok}

\* The handlers of every agents page of the remote system, in page order.
RECURSIVE AllRemoteAgents(_)
AllRemoteAgents(pages) ==
  IF pages = <<>> THEN <<>> ELSE pages[1].agents \o AllRemoteAgents(Tail(pages))

\* The directory holds every handler of every agents page, each with the
\* monitored groups whose membership list names it.
DirectoryComplete ==
  LET remote == AllRemoteAgents(arg.pages)
  IN /\ Len(result.value.agents) = Len(remote)
     /\ \A i \in DOMAIN remote :
          /\ result.value.agents[i].id = remote[i].id
          /\ result.value.agents[i].group_ids =
               {g \in SixMonitoredGroups :
                  \E k \in DOMAIN arg.members[g] : arg.members[g][k] = remote[i].id}

\* C23 (SpecDirectory).  getActiveAgents returns every handler of every agents
\* page with its group memberships, or raises: a request for an agents page or
\* for one of the six membership lists that fails after its retries makes it
\* raise, and a directory it returns omits no handler.
C23_DirectoryCompleteOrRaises ==
  result.done =>
    /\ FailedRequests({"getAgents", "getAgentsPage", "getGroup"}) # {} => result.value.threw
    /\ ~result.value.threw => DirectoryComplete

\* The part of C23 that the code keeps: a membership list that cannot be
\* fetched makes the builder raise.
C23_GroupFailureRaises ==
  result.done => (FailedRequests({"getGroup"}) # {} => result.value.threw)

\* The age in seconds, at the purge, of the attempt stored before it at position i.
AgeAtPurge(i) == arg.now - arg.attempts[i].attempted_at

\* The positions, in the store before the purge, of the attempts not older
\* than 31 days.
YoungEnough == {i \in DOMAIN arg.attempts : AgeAtPurge(i) <= 31 * 24 * 60 * 60}

\* C24 (SpecPurge).  After purgeOldAssignmentAttempts the store holds no
\* attempt older than 31 days, holds every attempt of age 31 days or less
\* (one of 31 days minus a second among them), and holds them in the order
\* they had before.
C24_PurgeRetention ==
  (result.done /\ result.fn = "purgeOldAssignmentAttempts") =>
    /\ \A j \in DOMAIN attemptsDb :
         arg.now - attemptsDb[j].attempted_at <= 31 * 24 * 60 * 60
    /\ \A i \in YoungEnough : \E j \in DOMAIN attemptsDb : attemptsDb[j] = arg.attempts[i]
    /\ Len(attemptsDb) = Cardinality(YoungEnough)
    /\ \A j, k \in DOMAIN attemptsDb :
         j < k => attemptsDb[j].ticket_id < attemptsDb[k].ticket_id

\* Three attempts, of 31 days and a second, 31 days less a second, and 31
\* days: the first is gone, the other two are kept in their order.
C24_Witness ==
  /\ result.done
  /\ result.fn = "purgeOldAssignmentAttempts"
  /\ Len(arg.attempts) = 3
  /\ AgeAtPurge(1) = 31 * 24 * 60 * 60 + 1
  /\ AgeAtPurge(2) = 31 * 24 * 60 * 60 - 1
  /\ AgeAtPurge(3) = 31 * 24 * 60 * 60
  /\ attemptsDb = <<arg.attempts[2], arg.attempts[3]>>

\* C25 (Spec).  Every scheduled run that fetched tickets invokes the retention
\* purge of the assignment attempts and that of the weekend reversions once
\* each, whatever its time and tickets, and does so before its first
\* assignment call.
C25_PurgeOncePerRun ==
  (mode = "scheduled" /\ calls # <<>> /\ calls[1].ok /\ calls[1].value > 0) =>
    /\ pc = "idle" =>
         /\ Cardinality(CallsOf("purgeOldAssignmentAttempts")) = 1
         /\ Cardinality(CallsOf("purgeOldWeekendReversions")) = 1
    /\ \A a \in CallsOf("assignTicket") :
         /\ \E p \in CallsOf("purgeOldAssignmentAttempts") : p < a
         /\ \E p \in CallsOf("purgeOldWeekendReversions") : p < a

\* The part of C25 that the code keeps: neither purge runs twice in a run, and
\* the purge of the assignment attempts precedes every assignment call.
C25_AttemptsPurgeBeforeAssignment ==
  mode = "scheduled" =>
    /\ Cardinality(CallsOf("purgeOldAssignmentAttempts")) <= 1
    /\ Cardinality(CallsOf("purgeOldWeekendReversions")) <= 1
    /\ \A a \in CallsOf("assignTicket") :
         \E p \in CallsOf("purgeOldAssignmentAttempts") : p < a

\* The store an append of SpecAppend wrote to, as it is now.
AppendedStore ==
  CASE arg.store = "activity" -> activityDb
    [] arg.store = "attempts" -> attemptsDb
    [] arg.store = "reversions" -> reversionsDb

\* After an append to a store that held before: nothing above max entries;
\* the new entry last; at max already, the oldest entry alone is gone and
\* the others have kept their order; below max, nothing is gone.
BoundedAppend(before, after, max) ==
  /\ Len(after) <= max
  /\ after[Len(after)].ticket_id = result.ticket_id
  /\ Len(before) = max =>
       /\ Len(after) = max
       /\ \A i \in 1..(max - 1) : after[i] = before[i + 1]
       /\ \A i \in 1..max : after[i] # before[1]
  /\ Len(before) < max =>
       /\ Len(after) = Len(before) + 1
       /\ \A i \in 1..Len(before) : after[i] = before[i]

\* C26 (SpecAppend).  The activity log never holds more than 10,000 entries
\* after an append; an append to a log of exactly 10,000 entries drops the
\* oldest entry alone and keeps the newest 10,000 in order, the new one last.
\* The assignment attempts (10,000) and the weekend reversions (5,000) are
\* bounded in the same way.
C26_StoresAreCapped ==
  result.done =>
    /\ arg.store = "activity" => BoundedAppend(result.before, activityDb, 10000)
    /\ arg.store = "attempts" => BoundedAppend(result.before, attemptsDb, 10000)
    /\ arg.store = "reversions" => BoundedAppend(result.before, reversionsDb, 5000)

\* The activity log held 10,000 entries, about tickets 1 to 10,000; after the
\* append it holds those about tickets 2 to 10,000 and the new one.
C26_Witness ==
  /\ result.done
  /\ arg.store = "activity"
  /\ Len(result.before) = 10000
  /\ result.before[1].ticket_id = 1
  /\ Len(activityDb) = 10000
  /\ activityDb[1].ticket_id = 2
  /\ activityDb[10000].ticket_id = result.ticket_id

\* The remote calls of this run that failed after their retries, among ops.
FailedCalls(ops) == {i \in DOMAIN calls : calls[i].op \in ops /\ ~calls[i].ok}

ErrorEntries == {i \in DOMAIN inMemoryLogs : inMemoryLogs[i].type = "error"}

C27_AssignmentWitness ==
  /\ mode = "scheduled"
  /\ pc = "idle"
  /\ dbDown # {}
  /\ FailedCalls({"assignTicket"}) # {}
  /\ ErrorEntries # {}
  /\ LastLog.message = "Run completed"

\* C28 (SpecFaults).  A store that cannot be read or written changes nothing
\* in what a run does to the tickets: the loop passes every ticket, in order;
\* a ticket counts as assigned exactly when its assignment call succeeded and
\* as an error exactly when it failed; and the run ends with its summary.
C28_PersistenceFailureIsHarmless ==
  mode = "scheduled" =>
    /\ pc # "crashed"
    /\ pc = "assign" =>
         /\ Len(steps) = pos - 1
         /\ \A j \in DOMAIN steps : steps[j].ticket = unassignedTickets[j]
         /\ pos <= Len(unassignedTickets) => ENABLED AssignStep(RunsScripts, TagEnvs)
         /\ pos > Len(unassignedTickets) => ENABLED FinishRun
    /\ \A j \in DOMAIN steps :
         /\ steps[j].outcome = "assigned" <=>
              \E i \in AssignCallsFor(steps[j].ticket) : calls[i].ok
         /\ steps[j].outcome = "error" <=>
              \E i \in AssignCallsFor(steps[j].ticket) : ~calls[i].ok
         /\ steps[j].outcome = "skipped" <=> AssignCallsFor(steps[j].ticket) = {}
    /\ pc \in {"assign", "idle"} =>
         /\ Cardinality({i \in CallsOf("assignTicket") : calls[i].ok})
              = Len(SelectSeq(steps, LAMBDA st : st.outcome = "assigned"))
         /\ Cardinality(FailedCalls({"assignTicket"}))
              = Len(SelectSeq(steps, LAMBDA st : st.outcome = "error"))
    /\ pc = "assign" =>
         /\ counts.assigned = Cardinality({i \in CallsOf("assignTicket") : calls[i].ok})
         /\ counts.errors = Cardinality(FailedCalls({"assignTicket"}))
         /\ counts.skipped = Len(steps) - Cardinality(CallsOf("assignTicket"))
    /\ (pc = "idle" /\ steps # <<>>) => LastLog.message = "Run completed"

\* Two tickets were assigned while the store could not be written: no attempt
\* and no rotation state were stored, and the run ended with its summary.
C28_Witness ==
  /\ mode = "scheduled"
  /\ pc = "idle"
  /\ Len(steps) = 2
  /\ \A j \in 1..2 : steps[j].outcome = "assigned"
  /\ attemptsDb = <<>>
  /\ activityDb = <<>>
  /\ agentIndexByGroup # EmptyIndices
  /\ ~dbIndices.present
  /\ "set" \in dbDown
  /\ LastLog.message = "Run completed"

\* The regular agents of group g in the directory of this run: members of g
\* that are neither occasional nor deactivated.
RegularAgentsOf(g) ==
  SelectSeq(allAgents, LAMBDA agent :
      g \in agent.group_ids /\ ~agent.occasional /\ ~agent.deactivated)

\* C29 (SpecStaff).  For every ticket of a monitored group the rotation is
\* made of the regular agents of that group, all of them whatever their
\* 'available', and of nobody else; so no ticket goes to an occasional or a
\* deactivated agent.
C29_AgentFiltering ==
  (mode = "scheduled" /\ pc = "assign") =>
    \A j \in DOMAIN steps :
      LET g == steps[j].ticket.group_id
      IN includes(supportedGroups, g) =>
           /\ groupAgentsOf(allAgents, g) = RegularAgentsOf(g)
           /\ steps[j].outcome = "assigned" =>
                \E k \in DOMAIN allAgents :
                   /\ allAgents[k].id = steps[j].agent
                   /\ ~allAgents[k].occasional
                   /\ ~allAgents[k].deactivated

\* The first half of C29 alone: no ticket goes to an occasional or a
\* deactivated agent.
C29_NoIrregularAssignee ==
  (mode = "scheduled" /\ pc = "assign") =>
    \A j \in DOMAIN steps :
      steps[j].outcome = "assigned" =>
        \E k \in DOMAIN allAgents :
           /\ allAgents[k].id = steps[j].agent
           /\ ~allAgents[k].occasional
           /\ ~allAgents[k].deactivated

\* The second half of C29 alone: a regular agent of the ticket's group is in
\* the rotation whatever its 'available'.
C29_UnavailableRegularIncluded ==
  (mode = "scheduled" /\ pc = "assign") =>
    \A j \in DOMAIN steps :
      LET g == steps[j].ticket.group_id
          regular == RegularAgentsOf(g)
      IN includes(supportedGroups, g) =>
           \A k \in DOMAIN regular :
              \E m \in DOMAIN groupAgentsOf(allAgents, g) :
                 groupAgentsOf(allAgents, g)[m].id = regular[k].id

\* The calls of the current run that load or save the rotation state.
RotationStateCalls ==
  CallsOf("loadAgentIndicesByGroup") \cup CallsOf("saveAgentIndicesByGroup")

\* C30 (SpecService).  A scheduled run that executes while the service is
\* turned off issues no assignment call and neither loads nor saves the
\* rotation state, whatever it fetched.
C30_ServiceSwitch ==
  (mode = "scheduled" /\ pc \in {"fetched", "revert", "gate", "assign"}
     /\ ~iparams.service_status)
    => /\ pc # "assign"
       /\ CallsOf("assignTicket") = {}
       /\ RotationStateCalls = {}

\* What the handler does keep of C30 (Spec, where global.appConfig holds any
\* value): a run that found service_status 'false' at line 581 ended at line
\* 211 with no assignment call and without loading or saving the rotation
\* state; a run that issued an assignment call found the status enabled or
\* absent.
C30_GateFollowsAppConfig ==
  mode = "scheduled" =>
    /\ (pc = "idle" /\ inMemoryLogs # <<>> /\ LastLog.message = "Service disabled")
         => CallsOf("assignTicket") = {} /\ RotationStateCalls = {}
    /\ CallsOf("assignTicket") # {}
         => \A i \in DOMAIN inMemoryLogs : inMemoryLogs[i].message # "Service disabled"

\* The tagging requests of the current run, for ticket, that failed.
FailedTagCalls(ticket) ==
  {i \in FailedCalls({"getSpecificTicket", "addTicketTag"}) : calls[i].ticket = ticket}

AttemptsOf(ticket, outcome) ==
  {j \in DOMAIN attemptsDb : attemptsDb[j].ticket_id = ticket.id
                              /\ attemptsDb[j].result = outcome}

\* C31 (SpecTags).  Tagging is best-effort: a ticket whose assignment call
\* succeeded and whose tagging failed, at the fetch of its tags or at their
\* writing, counts as assigned, has one Success attempt that records no tag
\* and an 'assignment' activity entry, has no Failed attempt, and moved its
\* group's index on by one.
C31_TaggingIsBestEffort ==
  mode = "scheduled" =>
    \A j \in DOMAIN steps :
      ( /\ \E i \in AssignCallsFor(steps[j].ticket) : calls[i].ok
        /\ FailedTagCalls(steps[j].ticket) # {} )
      => /\ steps[j].outcome = "assigned"
         /\ steps[j].after = (steps[j].index + 1) % steps[j].n
         /\ Cardinality(AttemptsOf(steps[j].ticket, "Success")) = 1
         /\ \A a \in AttemptsOf(steps[j].ticket, "Success") : attemptsDb[a].tag_added = ""
         /\ AttemptsOf(steps[j].ticket, "Failed") = {}
         /\ \E a \in DOMAIN activityDb :
               /\ activityDb[a].ticket_id = steps[j].ticket.id
               /\ activityDb[a].activity_type = "assignment"
               /\ ~activityDb[a].overnight_tagged
         /\ pc = "assign" =>
               counts.assigned = Len(SelectSeq(steps, LAMBDA st : st.outcome = "assigned"))

\* A run assigned two tickets: the tags of the first could not be fetched,
\* those of the second could not be written.
C31_Witness ==
  /\ mode = "scheduled"
  /\ pc = "idle"
  /\ Len(steps) = 2
  /\ \A j \in 1..2 : steps[j].outcome = "assigned"
  /\ \E i \in FailedTagCalls(steps[1].ticket) : calls[i].op = "getSpecificTicket"
  /\ \E i \in FailedTagCalls(steps[2].ticket) : calls[i].op = "addTicketTag"
  /\ Len(attemptsDb) = 2
  /\ Len(activityDb) = 2

\* The ticket of call i has a WeekendReversion entry and a 'status_reversion'
\* activity entry.
ReversionRecorded(i) ==
  /\ \E r \in DOMAIN reversionsDb : reversionsDb[r].ticket_id = calls[i].ticket.id
  /\ \E a \in DOMAIN activityDb :
        /\ activityDb[a].ticket_id = calls[i].ticket.id
        /\ activityDb[a].activity_type = "status_reversion"

\* C32 (Spec).  The note is best-effort: every ticket whose status update
\* succeeded is counted as reverted and has its WeekendReversion entry and
\* its activity entry, whether the note call that followed succeeded,
\* answered an error status or raised a transport error.
C32_NoteIsBestEffort ==
  pc \in {"revert", "gate"} =>
    /\ \A i \in UpdateCalls : calls[i].ok => ReversionRecorded(i)
    /\ revertedCount = Cardinality({i \in UpdateCalls : calls[i].ok})

\* The part of C32 the code keeps: a note answered with an error status
\* (lines 1420-1423) does not undo the reversion.
C32_NoteErrorStatusTolerated ==
  pc \in {"revert", "gate"} =>
    \A i \in UpdateCalls :
      ( /\ calls[i].ok
        /\ \E j \in NoteCalls : /\ calls[j].ticket = calls[i].ticket
                                 /\ calls[j].first >= 400 )
      => ReversionRecorded(i)

\* The loop has just skipped a ticket.
SkipStep ==
  /\ pc = "assign"
  /\ Len(steps') = Len(steps) + 1
  /\ steps'[Len(steps')].outcome = "skipped"

\* C33 (SpecSkips).  A skipped ticket, whatever the reason of the skip,
\* leaves the rotation index of every group as it was; so each ticket of a
\* group that reaches the assignment call starts from the index the group's
\* previous such ticket left, or from the loaded index if it is the first,
\* however many skipped tickets lie between them.
C33_SkipLeavesIndices ==
  /\ [][SkipStep => agentIndexByGroup' = agentIndexByGroup]_vars
  /\ [](pc = "assign" =>
         \A g \in SixMonitoredGroups :
           LET sg == StepsOf(g)
           IN \A j \in DOMAIN sg :
                /\ j = 1 => sg[j].before = loadAgentIndicesByGroup(dbIndices)[g]
                /\ j > 1 => sg[j].before = sg[j - 1].after
                /\ sg[j].agent = Eligible(g)[resolveIndex(sg[j].before, sg[j].n) + 1].id)

\* Two tickets of West with a skipped ticket between them went to
\* neighbouring handlers of the rotation.
C33_Witness ==
  /\ pc = "assign"
  /\ Len(steps) = 3
  /\ steps[1].outcome = "assigned" /\ steps[1].ticket.group_id = West
  /\ steps[2].outcome = "skipped"
  /\ steps[3].outcome = "assigned" /\ steps[3].ticket.group_id = West
  /\ steps[1].n = 3
  /\ steps[3].before = steps[1].after
  /\ steps[3].index = (steps[1].index + 1) % 3

\* The array inMemoryLogs names.
CurrentLog == result.arrays[result.bound]

\* C34 (SpecLogs).  The in-memory log never holds more than 1,000 entries,
\* whatever calls of addLog and clearLogs came before and however they
\* interleaved; a push onto a full log drops the oldest entry and keeps the
\* newest 1,000 in order, the new entry last.
C34_LogIsCapped ==
  /\ \A r \in DOMAIN result.arrays : Len(result.arrays[r]) <= 1000
  /\ result.after # <<>> => BoundedAppend(result.before, result.after, 1000)

\* The log held 1,000 entries, numbered 1 to 1,000; after an addLog it holds
\* the entries 2 to 1,000 and the new one.
C34_Witness ==
  /\ arg = 1000
  /\ result.clears = 0
  /\ result.after # <<>>
  /\ Len(CurrentLog) = 1000
  /\ CurrentLog[1].ticket_id = 2
  /\ CurrentLog[999].ticket_id = 1000
  /\ CurrentLog[1000].ticket_id = result.ticket_id

\* C36 (SpecLogs).  Once a clearLogs has completed, the log holds no entry
\* that was in it when it was cleared, whatever addLog was in flight.
C36_ClearIsNotUndone ==
  (result.clears > 0 /\ result.clear = "idle") =>
    \A i \in DOMAIN CurrentLog : CurrentLog[i].ticket_id \notin result.cleared

\* What holds of C36: a clearLogs that completed while no addLog held the
\* array it had read leaves none of the cleared entries in the log.
C36_ClearWithoutAddInFlight ==
  (result.clears > 0 /\ result.clear = "idle" /\ ~result.raced) =>
    \A i \in DOMAIN CurrentLog : CurrentLog[i].ticket_id \notin result.cleared

\* C35 (Spec).  No ticket gets both a reversion status update and an
\* assignment call in one run: the first go to tickets of status 23, the
\* second to tickets of status 2 or 29, all of the same fetched snapshot.
C35_RevertedAndAssignedDisjoint ==
  \A i, j \in DOMAIN calls :
    (calls[i].op = "updateTicketStatus" /\ calls[j].op = "assignTicket") =>
      /\ calls[i].ticket.id # calls[j].ticket.id
      /\ calls[i].ticket.status = FOLLOW_UP_REQUIRED
      /\ calls[j].ticket.status \in {OPEN, TRIAGE}
      /\ pc = "assign" =>
           /\ \E k \in DOMAIN allTickets : allTickets[k] = calls[i].ticket
           /\ \E k \in DOMAIN allTickets : allTickets[k] = calls[j].ticket

\* One scheduled run, at a time inside both windows, reverted one ticket of
\* its snapshot and made the assignment call for another.
C35_Witness ==
  /\ mode = "scheduled"
  /\ runs = 1
  /\ isWeekendTime(now) /\ isWithinAssignmentWindow(now)
  /\ \E i, j \in DOMAIN calls : /\ calls[i].op = "updateTicketStatus"
                                 /\ calls[j].op = "assignTicket"
                                 /\ i < j

\* The tickets the activity store has an entry about.
StoredIds == {activityDb[i].ticket_id : i \in DOMAIN activityDb}

\* C37 (SpecStore).  No audit entry is lost through interleaving: every append
\* that completed after the last clear is in the store, and after a completed
\* clear the store holds none of the entries it held when it was cleared.
C37_NoAuditEntryLost ==
  /\ result.completed \subseteq StoredIds
  /\ StoredIds \cap result.cleared = {}

\* What holds of C37: as long as no operation ran between the read and the
\* write of an append, nothing is lost and no clear is undone.
C37_SerialAppendsKept ==
  ~result.overlapped =>
    /\ result.completed \subseteq StoredIds
    /\ StoredIds \cap result.cleared = {}

\* A step of a scheduled event that neither enters the assignment loop nor
\* is part of it.
StepOutsideLoop ==
  /\ pc # "idle" \/ runs' = runs + 1
  /\ mode' \in {"scheduled", "legacy"}
  /\ pc # "assign" /\ pc' # "assign"

\* C38 (Spec).  A scheduled run that returns before the assignment loop
\* leaves the rotation state, stored and in memory, as it was and appends
\* nothing to the assignment-attempts store; an event whose operation is not
\* 'combined_operations' makes no call and changes nothing but the log,
\* which gets one info entry.
C38_EarlyReturnFrame ==
  [][/\ StepOutsideLoop =>
          /\ dbIndices' = dbIndices
          /\ agentIndexByGroup' = agentIndexByGroup
          /\ Len(attemptsDb') <= Len(attemptsDb)
          /\ \A i \in DOMAIN attemptsDb' : \E j \in DOMAIN attemptsDb :
                                              attemptsDb'[i] = attemptsDb[j]
     /\ mode' = "legacy" /\ runs' = runs + 1 =>
          /\ pc' = "idle"
          /\ calls' = <<>>
          /\ UNCHANGED <<agentIndexByGroup, stores, lastRun>>
          /\ Len(inMemoryLogs') = Len(inMemoryLogs) + 1
          /\ SubSeq(inMemoryLogs', 1, Len(inMemoryLogs)) = inMemoryLogs
          /\ inMemoryLogs'[Len(inMemoryLogs')].type = "info"]_vars

\* A run inside the assignment window found the service disabled and
\* returned: the stored rotation state is the one of an earlier run.
C38_Witness ==
  /\ pc = "idle" /\ mode = "scheduled" /\ runs = 1
  /\ isWithinAssignmentWindow(now) /\ isWeekdayTime(now)
  /\ inMemoryLogs # <<>>
  /\ inMemoryLogs[Len(inMemoryLogs)].message = "Service disabled"
  /\ dbIndices.present
  /\ attemptsDb = <<>>

\* C39 (SpecAgentPages).  getActiveAgents asks for a bounded number of agent
\* pages whatever the remote system answers: no more than the 50 of the
\* ticket fetcher, even when every page comes back full.
C39_AgentPagesBounded == result.requests <= maxPages

\* What holds of C39: the loop ends with the first page that is short, empty
\* or failed, and with nothing else; after n full pages it asks for page n + 1.
C39_EndsOnShortPage ==
  /\ result.page = result.requests + (IF result.hasMore THEN 1 ELSE 0)
  /\ ~result.hasMore => result.last < AgentPageSize
  /\ (result.hasMore /\ result.requests > 0) => result.last >= AgentPageSize

\* The request for a page after the first failed for good.
LaterPageFailed ==
  /\ Len(result.requests) > 1
  /\ result.requests[Len(result.requests)].length = undefined

\* C40 (SpecPagedRun).  When the request for a ticket page after the first
\* fails for good, the fetch fails as a whole: the tickets of the pages
\* already retrieved are not handed on, the run reverts and assigns nothing
\* and writes to no store, and it logs an error.
C40_LaterPageFailureFailsFetch ==
  LaterPageFailed =>
    /\ result.done /\ result.returned = "error" /\ result.value = <<>>
    /\ Len(result.tickets) >= PageSize
    /\ runs = 1 =>
         /\ pc = "idle"
         /\ allTickets = <<>> /\ supportedTickets = <<>> /\ unassignedTickets = <<>>
         /\ steps = <<>>
         /\ \A i \in DOMAIN calls : calls[i].op = "getUnassignedTickets"
         /\ attemptsDb = <<>> /\ activityDb = <<>> /\ reversionsDb = <<>>
         /\ Len(inMemoryLogs) = 1
         /\ inMemoryLogs[1].type = "error"
         /\ inMemoryLogs[1].message = "Error during combined operations"

\* On Monday 02:01 the first page brought 100 tickets, some to revert and
\* some to assign; the request for the second page failed and the run ended.
C40_Witness ==
  /\ LaterPageFailed
  /\ runs = 1
  /\ isWeekendTime(now) /\ isWithinAssignmentWindow(now)
  /\ Len(result.tickets) = PageSize
  /\ selectForReversion(result.tickets) # <<>>
  /\ \E i \in DOMAIN result.tickets : isEligibleTicket(result.tickets[i])

====
